---- MODULE Spec2Model ----
(***************************************************************************)
(* A model of repo-dashboard's VCS abstraction and aggregation engine:     *)
(*   - the backend selector            (vcs_factory.py)      SpecSelector  *)
(*   - the batch task runner           (batch_tasks.py)      SpecBatch     *)
(*   - the TTL caches                  (cache.py)            SpecCache,    *)
(*                                                           SpecCacheFrame*)
(*   - the dashboard's summary map, its collectors and the full refresh    *)
(*                                     (app.py, discovery.py) SpecApp      *)
(*   - one git collector, read by read (git_ops.py, app.py)  SpecCollector *)
(*   - the jj summary                  (vcs_jj.py)           SpecJjSummary *)
(*   - cleanup_merged_branches         (vcs_git.py)          SpecGitCleanup*)
(*                                     (vcs_jj.py)           SpecJjCleanup *)
(*                                     (either backend)      SpecCleanup   *)
(*   - the jj stash operations         (vcs_jj.py)           SpecJjStash   *)
(*   - the jj workspace operations     (vcs_jj.py)         SpecJjWorkspace *)
(*   - the memoized git reads          (git_ops.py)          SpecGitMemo   *)
(*   - filter composition              (filters.py)          SpecFilter    *)
(*   - the filter popup                (modals.py)         SpecFilterPopup *)
(*   - the batch task modal            (modals.py)          SpecBatchModal *)
(* Each subsystem has its own specification over the same variables; a     *)
(* specification leaves the variables of the other subsystems unchanged.   *)
(***************************************************************************)
EXTENDS Integers, Sequences, FiniteSets, TLC

VARIABLES
    \* ---- filesystem (marker directories of each repository path)
    fs,            \* [Paths -> [git : {"none","dir","file"}, jj : {"none","dir"}]]
    created,       \* per path, the markers in the order they were created
    detected,      \* the detect_vcs_type / get_vcs_operations calls made so far
    \* ---- BatchTaskRunner
    repos,         \* self.repos: the input list of RepoSummary (path, name)
    bpc,           \* position of run_task
    idx,           \* index of the loop variable `repo` in self.repos
    vcs_ops,       \* the backend resolved for the current repository
    taskState,     \* per index: "pending" | "running" | "finished"
    taskOutcome,   \* per index: what task_fn did (returned a pair, or raised)
    results,       \* the list run_task builds
    \* ---- TTL caches
    caches,        \* per cache instance, self._cache: key -> CacheEntry
    now,           \* datetime.now(), in minutes
    lastCall,      \* the last TTLCache call: its arguments, what it found, its result
    \* ---- RepoDashboardApp and its environment
    installed,     \* the executables on PATH, among git, jj and gh
    appState,      \* "constructed" | "running" | "exited"
    repo_paths,    \* self._repo_paths
    summaries,     \* self._summaries: path -> RepoSummary
    current_view,  \* self._current_view
    selected_repo, \* self._selected_repo
    workers,       \* the collectors launched so far (group "summaries"), in launch order
    detail,        \* the repository-detail loader in flight (exclusive worker)
    refreshes,     \* how many times action_refresh has run
    \* ---- one git collector (_load_repo_summary over git_ops) and its repository
    repo_state,    \* what git would report for the repository, and the read that fails
    cpc,           \* position of _load_repo_summary / get_repo_summary_async
    reads,         \* per read call of the gather: "idle" | "pending" | "returned" | "raised"
    gather_exc,    \* the first exception a read of the gather raised
    csummary,      \* the RepoSummary the collector holds
    cerror,        \* the exception that left the collector
    \* ---- cleanup_merged_branches of one backend on one repository
    cleanup,       \* its position, the branches it found, tried, deleted and failed on
    \* ---- direct calls of backend and filter operations
    calls,         \* the calls made so far: operation, arguments, result or exception
    \* ---- FilterPopup and the filter list of the app
    popup,         \* _active_filters, _not_prefix_active, and the last key handled
    \* ---- BatchTaskModal
    modal          \* _total, _completed, the result rows and the position of on_mount

batchVars == <<repos, bpc, idx, vcs_ops, taskState, taskOutcome, results>>
fsVars    == <<fs, created, detected>>
cacheVars == <<caches, now, lastCall>>
appVars   == <<installed, appState, repo_paths, summaries, current_view,
               selected_repo, workers, detail, refreshes>>
collVars  == <<repo_state, cpc, reads, gather_exc, csummary, cerror>>
auxVars   == <<calls, popup, modal>>
opsVars   == <<collVars, cleanup, auxVars>>
vars      == <<fsVars, batchVars, cacheVars, appVars, opsVars>>

----------------------------------------------------------------------------
(* Bounds and input sets *)

MaxRepos == 3
\* SpecCache: the clock runs past the longest TTL; SpecCacheFrame: several
\* entries in several instances.
MaxTime == 6
MaxEntries == 1
MaxFrameTime == 1
MaxFrameEntries == 2
MaxSelectorCalls == 2
MaxRefreshes == 1
MaxWorkers == 4

Paths == {"p1", "p2"}
Names == {"alpha", "beta"}

NoValue == "<none>"

\* What a task function may return, and the texts of what it may raise.
TaskReturns == {<<TRUE, "Fetched successfully">>, <<FALSE, "Fetch failed">>}
ErrorTexts  == {"boom"}
DurationsMs == {0, 1}

GitKinds == {"none", "dir", "file"}
JjKinds  == {"none", "dir"}
FsKinds  == [git : GitKinds, jj : JjKinds]
DirKinds == [git : {"none", "dir"}, jj : JjKinds]

\* The RepoSummary inputs of a batch run: (path, name) pairs, with a name
\* shared by two paths and a path listed under two names.
RepoInputs == {r \in [path : Paths, name : Names] : ~(r.path = "p1" /\ r.name = "beta")}

RECURSIVE SeqsUpTo(_, _)
SeqsUpTo(S, n) ==
    IF n = 0 THEN {<<>>}
    ELSE LET shorter == SeqsUpTo(S, n - 1)
         IN  shorter \cup {Append(s, x) : s \in {t \in shorter : Len(t) = n - 1}, x \in S}

\* The state of a subsystem that a specification does not exercise.
InitFsIdle ==
    /\ created = [p \in Paths |-> <<>>]
    /\ detected = <<>>

InitAppIdle ==
    /\ installed = {"git", "jj", "gh"}
    /\ appState = "constructed"
    /\ repo_paths = <<>>
    /\ summaries = <<>>
    /\ current_view = "repo_list"
    /\ selected_repo = NoValue
    /\ workers = <<>>
    /\ detail = NoValue
    /\ refreshes = 0

InitCollectorIdle ==
    /\ repo_state = NoValue
    /\ cpc = "idle"
    /\ reads = <<>>
    /\ gather_exc = "None"
    /\ csummary = NoValue
    /\ cerror = "None"

InitAuxIdle ==
    /\ calls = <<>>
    /\ popup = NoValue
    /\ modal = NoValue

InitOpsIdle ==
    /\ InitCollectorIdle
    /\ cleanup = NoValue
    /\ InitAuxIdle

InitBatchIdle ==
    /\ repos = <<>>
    /\ bpc = "done"
    /\ idx = 1
    /\ vcs_ops = NoValue
    /\ taskState = <<>>
    /\ taskOutcome = <<>>
    /\ results = <<>>

----------------------------------------------------------------------------
(* vcs_factory.py: the backend selector *)

is_dir(kinds, marker) == kinds[marker] = "dir"

exists(kinds, marker) == kinds[marker] # "none"

detect_vcs_type_git_first(kinds) ==
    IF is_dir(kinds, "git") THEN "git"
    ELSE IF is_dir(kinds, "jj") THEN "jj"
    ELSE "None"

\* detect_vcs_type: .jj first, then .git, else None.
detect_vcs_type(kinds) ==
    IF is_dir(kinds, "jj") THEN "jj"
    ELSE IF is_dir(kinds, "git") THEN "git"
    ELSE "None"

\* A selector that falls back to git when no marker directory is found.
get_vcs_operations_default_git(kinds) ==
    IF detect_vcs_type(kinds) = "jj" THEN "JJOperations" ELSE "GitOperations"

\* get_vcs_operations: JJOperations / GitOperations, or raises ValueError.
get_vcs_operations(kinds) ==
    LET vcs_type == detect_vcs_type(kinds)
    IN  IF vcs_type = "jj" THEN "JJOperations"
        ELSE IF vcs_type = "git" THEN "GitOperations"
        ELSE "ValueError"

----------------------------------------------------------------------------
(* cache.py: TTLCache and its four module-level instances *)

CacheNames == {"pr_cache", "branch_cache", "commit_cache", "workflow_cache"}
Keys == {"k1", "k2"}
Data == {"v1", "v2"}
None == "None"

\* ttl_minutes of each instance.
PrTtl == 5
BranchTtl == 2
CommitTtl == 5
WorkflowTtl == 5

ttl(c) ==
    CASE c = "pr_cache" -> PrTtl
      [] c = "branch_cache" -> BranchTtl
      [] c = "commit_cache" -> CommitTtl
      [] c = "workflow_cache" -> WorkflowTtl

EmptyDict == [k \in {} |-> [data |-> None, timestamp |-> 0]]

CacheEntry(data, timestamp) == [data |-> data, timestamp |-> timestamp]

NoCall ==
    [op |-> "none", cache |-> NoValue, key |-> NoValue, found |-> FALSE,
     age |-> 0, data |-> None, ret |-> None, size |-> 0]

DictWithout(d, k) == [x \in (DOMAIN d) \ {k} |-> d[x]]

DictWith(d, k, e) == [x \in (DOMAIN d) \cup {k} |-> IF x = k THEN e ELSE d[x]]

\* A comparison that also serves an entry whose age equals the TTL.
is_fresh_inclusive(entry, c, t) == t - entry.timestamp <= ttl(c)

\* datetime.now() - entry.timestamp < self._ttl
is_fresh(entry, c, t) == t - entry.timestamp < ttl(c)

\* TTLCache.get: its return value ...
get_return(d, c, k, t) ==
    IF k \in DOMAIN d /\ is_fresh(d[k], c, t) THEN d[k].data ELSE None

\* ... and the dict it leaves: `del self._cache[key]` for a stale entry.
get_dict(d, c, k, t) ==
    IF k \in DOMAIN d /\ ~is_fresh(d[k], c, t) THEN DictWithout(d, k) ELSE d

\* TTLCache.set
set_dict(d, k, data, t) == DictWith(d, k, CacheEntry(data, t))

\* A clear of state shared by every instance.
clear_all_instances(cs, c) == [x \in CacheNames |-> EmptyDict]

\* TTLCache.clear, on instance c of the caches cs.
clear(cs, c) == [cs EXCEPT ![c] = EmptyDict]

InitCacheIdle ==
    /\ caches = [c \in CacheNames |-> EmptyDict]
    /\ now = 0
    /\ lastCall = NoCall

\* The age of the oldest entry of a dict (0 for an empty one).
OldestAge(d, t) ==
    IF DOMAIN d = {} THEN 0
    ELSE t - (CHOOSE m \in {d[k].timestamp : k \in DOMAIN d} :
                 \A k \in DOMAIN d : m <= d[k].timestamp)

TotalEntries == Cardinality({ck \in CacheNames \X Keys : ck[2] \in DOMAIN caches[ck[1]]})

CacheGet(c, k) ==
    /\ caches' = [caches EXCEPT ![c] = get_dict(caches[c], c, k, now)]
    /\ lastCall' = [op |-> "get", cache |-> c, key |-> k,
                    found |-> k \in DOMAIN caches[c],
                    age |-> IF k \in DOMAIN caches[c] THEN now - caches[c][k].timestamp ELSE 0,
                    data |-> IF get_return(caches[c], c, k, now) # None
                             THEN caches[c][k].data ELSE None,
                    ret |-> get_return(caches[c], c, k, now), size |-> 0]
    /\ UNCHANGED <<now, fsVars, batchVars, opsVars, appVars>>

CacheSet(c, k, v, cap) ==
    /\ k \in DOMAIN caches[c] \/ TotalEntries < cap
    /\ caches' = [caches EXCEPT ![c] = set_dict(caches[c], k, v, now)]
    /\ lastCall' = [NoCall EXCEPT !.op = "set", !.cache = c, !.key = k, !.data = v]
    /\ UNCHANGED <<now, fsVars, batchVars, opsVars, appVars>>

CacheClear(c) ==
    /\ caches' = clear(caches, c)
    /\ lastCall' = [NoCall EXCEPT !.op = "clear", !.cache = c,
                                  !.size = Cardinality(DOMAIN caches[c]),
                                  !.age = OldestAge(caches[c], now)]
    /\ UNCHANGED <<now, fsVars, batchVars, opsVars, appVars>>

\* Time passes between two calls.
Tick(limit) ==
    /\ now < limit
    /\ now' = now + 1
    /\ lastCall' = NoCall
    /\ UNCHANGED <<caches, fsVars, batchVars, opsVars, appVars>>

InitCache ==
    /\ fs = [p \in Paths |-> [git |-> "none", jj |-> "none"]]
    /\ InitFsIdle
    /\ InitBatchIdle
    /\ InitCacheIdle
    /\ InitAppIdle
    /\ InitOpsIdle

NextCache ==
    \/ \E c \in CacheNames, k \in Keys : CacheGet(c, k)
    \/ \E c \in CacheNames, k \in Keys, v \in Data : CacheSet(c, k, v, MaxEntries)
    \/ \E c \in CacheNames : CacheClear(c)
    \/ Tick(MaxTime)

SpecCache == InitCache /\ [][NextCache]_vars

NextCacheFrame ==
    \/ \E c \in CacheNames, k \in Keys : CacheGet(c, k)
    \/ \E c \in CacheNames, k \in Keys, v \in Data : CacheSet(c, k, v, MaxFrameEntries)
    \/ \E c \in CacheNames : CacheClear(c)
    \/ Tick(MaxFrameTime)

SpecCacheFrame == InitCache /\ [][NextCacheFrame]_vars

----------------------------------------------------------------------------
(* The filesystem's marker directories, and calls of the selector *)

NoMarkers == [git |-> "none", jj |-> "none"]

\* mkdir <path>/.git or <path>/.jj; a linked worktree has a .git file instead.
MakeMarker(p, marker, kind) ==
    /\ fs[p][marker] = "none"
    /\ kind \in (IF marker = "git" THEN GitKinds ELSE JjKinds) \ {"none"}
    /\ fs' = [fs EXCEPT ![p][marker] = kind]
    /\ created' = [created EXCEPT ![p] = Append(@, marker)]
    /\ UNCHANGED <<detected, batchVars, opsVars, cacheVars, appVars>>

\* A call get_vcs_operations(p), which calls detect_vcs_type(p).
CallGetVcsOperations(p) ==
    /\ Len(detected) < MaxSelectorCalls
    /\ detected' = Append(detected,
                      [path |-> p, kinds |-> fs[p], order |-> created[p],
                       vcs_type |-> detect_vcs_type(fs[p]),
                       ops |-> get_vcs_operations(fs[p])])
    /\ UNCHANGED <<fs, created, batchVars, opsVars, cacheVars, appVars>>

InitSelector ==
    /\ fs = [p \in Paths |-> NoMarkers]
    /\ InitFsIdle
    /\ InitBatchIdle
    /\ InitCacheIdle
    /\ InitAppIdle
    /\ InitOpsIdle

NextSelector ==
    \/ \E p \in Paths, marker \in {"git", "jj"}, kind \in GitKinds : MakeMarker(p, marker, kind)
    \/ \E p \in Paths : CallGetVcsOperations(p)

SpecSelector == InitSelector /\ [][NextSelector]_vars

----------------------------------------------------------------------------
(* batch_tasks.py: BatchTaskRunner.run_task *)

\* A handler that drops the exception's text.
ErrorMessageWithoutText(text) == "Error"

\* f"Error: {err}"
ErrorMessage(text) == "Error: " \o text

BatchTaskResult(repo, success, message, duration) ==
    [repo_path |-> repo.path, repo_name |-> repo.name,
     success |-> success, message |-> message, duration_ms |-> duration]

InitBatch ==
    /\ fs \in [Paths -> DirKinds]
    /\ InitFsIdle
    /\ InitCacheIdle
    /\ InitAppIdle
    /\ InitOpsIdle
    /\ repos \in SeqsUpTo(RepoInputs, MaxRepos)
    /\ bpc = "loop"
    /\ idx = 1
    /\ vcs_ops = NoValue
    /\ taskState = [i \in 1..Len(repos) |-> "pending"]
    /\ taskOutcome = <<>>
    /\ results = <<>>

\* `for repo in self.repos` is exhausted: `return results`.
BatchReturn ==
    /\ bpc = "loop"
    /\ idx > Len(repos)
    /\ bpc' = "done"
    /\ UNCHANGED <<repos, idx, vcs_ops, taskState, taskOutcome, results, fsVars, cacheVars, appVars, opsVars>>

\* vcs_ops = get_vcs_operations(repo.path): outside the try block, so its
\* ValueError leaves run_task.
BatchResolve ==
    /\ bpc = "loop"
    /\ idx <= Len(repos)
    /\ LET ops == get_vcs_operations(fs[repos[idx].path])
       IN  IF ops = "ValueError"
           THEN /\ bpc' = "raised"
                /\ UNCHANGED vcs_ops
           ELSE /\ bpc' = "call"
                /\ vcs_ops' = ops
    /\ UNCHANGED <<repos, idx, taskState, taskOutcome, results, fsVars, cacheVars, appVars, opsVars>>

\* The task is started but not awaited: the loop goes on to the next repository.
BatchCallTaskNotAwaited ==
    /\ bpc = "call"
    /\ taskState' = [taskState EXCEPT ![idx] = "running"]
    /\ idx' = idx + 1
    /\ bpc' = "loop"
    /\ UNCHANGED <<repos, vcs_ops, taskOutcome, results, fsVars, cacheVars, appVars, opsVars>>

\* start = time.time(); await task_fn(vcs_ops, repo.path) begins.
BatchCallTask ==
    /\ bpc = "call"
    /\ taskState' = [taskState EXCEPT ![idx] = "running"]
    /\ bpc' = "await"
    /\ UNCHANGED <<repos, idx, vcs_ops, taskOutcome, results, fsVars, cacheVars, appVars, opsVars>>

\* The loop body after the awaited task has settled with (success, message).
BatchRecord(outcome, success, message, duration) ==
    /\ taskState' = [taskState EXCEPT ![idx] = "finished"]
    /\ taskOutcome' = Append(taskOutcome, outcome)
    /\ results' = Append(results, BatchTaskResult(repos[idx], success, message, duration))
    /\ idx' = idx + 1
    /\ bpc' = "loop"
    /\ UNCHANGED <<repos, vcs_ops, fsVars, cacheVars, appVars, opsVars>>

\* task_fn returns (success, message).
BatchTaskReturns ==
    /\ bpc = "await"
    /\ \E r \in TaskReturns, d \in DurationsMs :
          BatchRecord([kind |-> "return", success |-> r[1], text |-> r[2]],
                      r[1], r[2], d)

\* An except branch that goes on to the next repository without recording.
BatchTaskRaisesUnrecorded ==
    /\ bpc = "await"
    /\ taskState' = [taskState EXCEPT ![idx] = "finished"]
    /\ idx' = idx + 1
    /\ bpc' = "loop"
    /\ UNCHANGED <<repos, vcs_ops, taskOutcome, results, fsVars, cacheVars, appVars, opsVars>>

\* task_fn raises: `except Exception as err`.
BatchTaskRaises ==
    /\ bpc = "await"
    /\ \E e \in ErrorTexts, d \in DurationsMs :
          BatchRecord([kind |-> "raise", success |-> FALSE, text |-> e],
                      FALSE, ErrorMessage(e), d)

NextBatch ==
    \/ BatchResolve
    \/ BatchCallTask
    \/ BatchTaskReturns
    \/ BatchTaskRaises
    \/ BatchReturn

SpecBatch == InitBatch /\ [][NextBatch]_vars

----------------------------------------------------------------------------
(* discovery.py and app.py: discovery, the collectors, the summary map and *)
(* the full refresh                                                        *)

Tools == {"git", "jj", "gh"}

PathOrder == <<"p1", "p2">>

InPaths(kinds, p) == exists(kinds[p], "git")

\* discover_git_repos: the directories that hold a .git entry, sorted.
discover_git_repos(kinds) ==
    SelectSeq(PathOrder, LAMBDA p : InPaths(kinds, p))

NoSummary ==
    [path |-> NoValue, vcs_type |-> NoValue, current_branch |-> NoValue,
     status |-> "LOADING", pr_info |-> None]

\* The branch a summary of the given status reports.
BranchOf(vcs_type, status) ==
    IF status \in {"NO_GIT", "NO_JJ", "WARNING"} THEN "?"
    ELSE IF status = "DETACHED_HEAD" THEN "HEAD"
    ELSE "main"

RepoSummary(p, vcs_type, status, pr_info) ==
    [path |-> p, vcs_type |-> vcs_type, current_branch |-> BranchOf(vcs_type, status),
     status |-> status, pr_info |-> pr_info]

\* RepoSummary (models.py) has no staged_count, unstaged_count, untracked_count
\* or has_remote field: every RepoSummary(...) call of
\* JJOperations.get_repo_summary_async, the two in its except branches
\* included, raises TypeError, which leaves the coroutine.
summary_raises(ops) == ops = "JJOperations"

\* The status git_ops.get_repo_summary_async reports for a readable repository
\* (OK) or when the git executable is missing.
SummaryStatus(ops, tools) ==
    IF "git" \in tools THEN "OK" ELSE "NO_GIT"

VcsTypeOf(ops) == IF ops = "GitOperations" THEN "git" ELSE "jj"

UpstreamOf(p) == "owner/" \o p

\* f"{upstream}:{summary.current_branch}"
PrCacheKey(upstream, branch) == upstream \o ":" \o branch

\* f"{path}:worktree_count"
WorktreeCountKey(p) == p \o ":worktree_count"

\* f"{path}:branches"
BranchListKey(p) == p \o ":branches"

\* What get_upstream_repo returns, or the exception it raises.
UpstreamResults(ops, tools, p) ==
    IF ops = "GitOperations"
    THEN IF "git" \in tools THEN {None, UpstreamOf(p)} ELSE {"FileNotFoundError"}
    ELSE IF "jj" \in tools THEN {None, UpstreamOf(p)} ELSE {None}

\* What get_pr_for_branch_async returns, or the exception it raises.
PrResults(tools) ==
    IF "gh" \in tools THEN {None, "PR#1"} ELSE {"FileNotFoundError"}

Worker(p, gen) ==
    [path |-> p, gen |-> gen, pc |-> "scheduled", ops |-> NoValue,
     error |-> None, summary |-> NoSummary, upstream |-> None]

\* _start_progressive_load: one run_worker per path of self._repo_paths.
start_progressive_load(ws, paths, gen) ==
    ws \o [i \in 1..Len(paths) |-> Worker(paths[i], gen)]

\* action_refresh starts the collectors only when the repository list is shown.
refresh_relaunches_in_view(view) == view = "repo_list"

\* The directories the dashboard is started on: no repository, a jj-only
\* repository, a git repository, a git worktree (.git is a file) and a
\* colocated repository.
AppFsKinds ==
    {k \in FsKinds : ~(k.git = "file" /\ k.jj = "dir")}

InitApp ==
    /\ fs \in [Paths -> AppFsKinds]
    /\ InitFsIdle
    /\ InitBatchIdle
    /\ InitCacheIdle
    /\ InitOpsIdle
    /\ installed \in SUBSET Tools
    /\ appState = "constructed"
    /\ repo_paths = <<>>
    /\ summaries = [p \in {} |-> NoSummary]
    /\ current_view = "repo_list"
    /\ selected_repo = NoValue
    /\ workers = <<>>
    /\ detail = NoValue
    /\ refreshes = 0

\* on_mount: discover, then (unless nothing was found) load progressively.
OnMount ==
    /\ appState = "constructed"
    /\ appState' = "running"
    /\ repo_paths' = discover_git_repos(fs)
    /\ workers' = start_progressive_load(workers, repo_paths', 0)
    /\ UNCHANGED <<installed, summaries, current_view, selected_repo, detail, refreshes,
                   fsVars, batchVars, opsVars, cacheVars>>

\* A worker's coroutine raised: run_worker's default exit_on_error ends the app.
WorkerFails(i, err) ==
    /\ workers' = [workers EXCEPT ![i].pc = "failed", ![i].error = err]
    /\ appState' = "exited"

\* _load_repo_summary up to its first await: vcs_ops = get_vcs_operations(path).
WorkerStart(i) ==
    /\ appState = "running"
    /\ workers[i].pc = "scheduled"
    /\ LET ops == get_vcs_operations(fs[workers[i].path])
       IN  IF ops = "ValueError"
           THEN WorkerFails(i, "ValueError")
           ELSE /\ workers' = [workers EXCEPT ![i].pc = "collecting", ![i].ops = ops]
                /\ UNCHANGED appState
    /\ UNCHANGED <<installed, repo_paths, summaries, current_view, selected_repo, detail,
                   refreshes, fsVars, batchVars, opsVars, cacheVars>>

\* A store that waits until every collector launched earlier has finished.
store_in_launch_order(i, summary) ==
    /\ \A j \in 1..(i - 1) : workers[j].pc \in {"done", "failed"}
    /\ summaries' = DictWith(summaries, workers[i].path,
                             summary @@ [loaded_by |-> workers[i].gen])
    /\ workers' = [workers EXCEPT ![i].pc = "done", ![i].summary = NoSummary,
                                       ![i].upstream = None]

\* self._summaries[path] = summary. The object stored is the one this
\* collector built: loaded_by names the load (0, or the refresh) that
\* launched the collector.
Store(i, summary) ==
    /\ summaries' = DictWith(summaries, workers[i].path,
                             summary @@ [loaded_by |-> workers[i].gen])
    /\ workers' = [workers EXCEPT ![i].pc = "done", ![i].summary = NoSummary,
                                       ![i].upstream = None]

\* commit_cache after get_repo_summary_async: with the backend's executable
\* present, get_worktree_count has stored its count.
after_summary(cs, ops, tools, p, t) ==
    IF VcsTypeOf(ops) \in tools
    THEN [cs EXCEPT !["commit_cache"] = set_dict(@, WorktreeCountKey(p), "count", t)]
    ELSE cs

\* summary = await vcs_ops.get_repo_summary_async(path) and
\* upstream = await vcs_ops.get_upstream_repo(path) have settled; then the
\* pr_cache lookup, up to the next await or to the store.
Collected(i) ==
    /\ appState = "running"
    /\ workers[i].pc = "collecting"
    /\ LET w == workers[i]
           summary == RepoSummary(w.path, VcsTypeOf(w.ops),
                                  SummaryStatus(w.ops, installed), None)
           cs == after_summary(caches, w.ops, installed, w.path, now)
       IN  \E up \in UpstreamResults(w.ops, installed, w.path) :
              IF summary_raises(w.ops)
              THEN /\ WorkerFails(i, "TypeError")
                   /\ caches' = cs
                   /\ UNCHANGED summaries
              ELSE IF up = "FileNotFoundError"
              THEN /\ WorkerFails(i, up)
                   /\ caches' = cs
                   /\ UNCHANGED summaries
              ELSE IF up = None
              THEN /\ Store(i, summary)
                   /\ caches' = cs
                   /\ UNCHANGED appState
              ELSE LET key == PrCacheKey(up, summary.current_branch)
                       hit == get_return(cs["pr_cache"], "pr_cache", key, now)
                   IN  /\ caches' = [cs EXCEPT !["pr_cache"] =
                                        get_dict(@, "pr_cache", key, now)]
                       /\ IF hit # None
                          THEN Store(i, [summary EXCEPT !.pr_info = hit])
                          ELSE /\ workers' = [workers EXCEPT ![i].pc = "pr",
                                                             ![i].summary = summary,
                                                             ![i].upstream = up]
                               /\ UNCHANGED summaries
                       /\ UNCHANGED appState
    /\ UNCHANGED <<installed, repo_paths, current_view, selected_repo, detail, refreshes,
                   fsVars, batchVars, opsVars, now, lastCall>>

\* pr_info = await get_pr_for_branch_async(path, branch) has settled.
PrDone(i) ==
    /\ appState = "running"
    /\ workers[i].pc = "pr"
    /\ LET w == workers[i]
       IN  \E pr \in PrResults(installed) :
              IF pr = "FileNotFoundError"
              THEN /\ WorkerFails(i, pr)
                   /\ UNCHANGED <<summaries, caches>>
              ELSE IF pr = None
              THEN /\ Store(i, w.summary)
                   /\ UNCHANGED <<appState, caches>>
              ELSE /\ caches' = [caches EXCEPT !["pr_cache"] =
                                    set_dict(@, PrCacheKey(w.upstream, w.summary.current_branch),
                                             pr, now)]
                   /\ Store(i, [w.summary EXCEPT !.pr_info = pr])
                   /\ UNCHANGED appState
    /\ UNCHANGED <<installed, repo_paths, current_view, selected_repo, detail, refreshes,
                   fsVars, batchVars, opsVars, now, lastCall>>

\* action_select / on_row_selected on the row of p: _show_repo_detail_view.
ActionSelect(p) ==
    /\ appState = "running"
    /\ current_view = "repo_list"
    /\ p \in DOMAIN summaries
    /\ selected_repo' = p
    /\ current_view' = "repo_detail"
    /\ detail' = p
    /\ UNCHANGED <<installed, appState, repo_paths, summaries, workers, refreshes,
                   fsVars, batchVars, opsVars, cacheVars>>

\* _load_repo_details has gathered the branch, stash and worktree lists.
DetailDone ==
    /\ appState = "running"
    /\ detail # NoValue
    /\ detail' = NoValue
    /\ IF detect_vcs_type(fs[detail]) \in installed
       THEN /\ caches' = [caches EXCEPT !["branch_cache"] =
                             set_dict(@, BranchListKey(detail), "branches", now)]
            /\ UNCHANGED appState
       ELSE /\ appState' = "exited"
            /\ UNCHANGED caches
    /\ UNCHANGED <<installed, repo_paths, summaries, current_view, selected_repo, workers,
                   refreshes, fsVars, batchVars, opsVars, now, lastCall>>

\* action_back from the detail view (no search or filter is active).
action_back ==
    /\ current_view' = "repo_list"
    /\ selected_repo' = NoValue

ActionBack ==
    /\ appState = "running"
    /\ current_view = "repo_detail"
    /\ action_back
    /\ UNCHANGED <<installed, appState, repo_paths, summaries, workers, detail, refreshes,
                   fsVars, batchVars, opsVars, cacheVars>>

\* action_refresh.
ActionRefresh ==
    /\ appState = "running"
    /\ refreshes < MaxRefreshes
    /\ current_view = "repo_list" => Len(workers) + Len(repo_paths) <= MaxWorkers
    /\ refreshes' = refreshes + 1
    /\ caches' = clear(clear(clear(caches, "pr_cache"), "branch_cache"), "commit_cache")
    /\ summaries' = [p \in {} |-> NoSummary]
    /\ IF refresh_relaunches_in_view(current_view)
       THEN /\ workers' = start_progressive_load(workers, repo_paths, refreshes + 1)
            /\ UNCHANGED <<current_view, selected_repo>>
       ELSE /\ action_back
            /\ UNCHANGED workers
    /\ UNCHANGED <<installed, appState, repo_paths, detail, fsVars, batchVars, opsVars, now, lastCall>>

NextApp ==
    \/ OnMount
    \/ \E i \in 1..Len(workers) : WorkerStart(i)
    \/ \E i \in 1..Len(workers) : Collected(i)
    \/ \E i \in 1..Len(workers) : PrDone(i)
    \/ \E p \in Paths : ActionSelect(p)
    \/ DetailDone
    \/ ActionBack
    \/ ActionRefresh

SpecApp == InitApp /\ [][NextApp]_vars

----------------------------------------------------------------------------
(* git_ops.py and app.py: one collector of a git repository, read by read *)

MaxCommits == 1

CollectorPath == "p1"

\* The seven coroutines get_repo_summary_async hands to asyncio.gather.
ReadNames ==
    {"current_branch", "is_detached", "ahead_behind", "uncommitted",
     "last_modified", "stash_count", "worktree_count"}

\* The reads that go through _run_git_async without catching what it raises.
UnguardedReads == ReadNames \ {"is_detached"}

TrackingNames == {None, "origin/main"}

\* What git reports for the repository, and the call (if any) that fails
\* with git installed: a git call with an error other than a missing
\* executable, or ("mtime") the path.stat() of get_last_modified_time, which
\* runs when git log prints nothing and finds no directory.
RepoStates ==
    [detached : BOOLEAN, ahead : 0..MaxCommits, behind : 0..MaxCommits,
     tracking : TrackingNames, faulty : ReadNames \cup {"tracking", "mtime", NoValue}]

\* get_current_branch_async: git rev-parse --abbrev-ref HEAD.
current_branch_of(st) == IF st.detached THEN "HEAD" ELSE "main"

\* _is_detached_head_async: any exception counts as detached.
is_detached_of(st, tools) ==
    IF "git" \notin tools \/ st.faulty = "is_detached" THEN TRUE ELSE st.detached

\* _get_tracking_branch: any exception counts as no tracking branch.
tracking_of(st, tools) ==
    IF "git" \notin tools \/ st.faulty = "tracking" THEN None ELSE st.tracking

\* What a read of the gather does when it settles.
read_outcome(r, st, tools) ==
    IF r = "is_detached" THEN "returned"
    ELSE IF "git" \notin tools THEN "FileNotFoundError"
    ELSE IF st.faulty = r THEN "OSError"
    ELSE IF r = "last_modified" /\ st.faulty = "mtime" THEN "FileNotFoundError"
    ELSE "returned"

\* A status policy that tests the upstream before the detached HEAD.
git_status_upstream_first(is_detached, ahead, behind, tracking) ==
    IF ahead = 0 /\ behind = 0 /\ tracking = None THEN "NO_UPSTREAM"
    ELSE IF is_detached THEN "DETACHED_HEAD"
    ELSE "OK"

\* The status of a summary whose reads all returned (git_ops.py:259-267).
git_status(is_detached, ahead, behind, tracking) ==
    IF is_detached THEN "DETACHED_HEAD"
    ELSE IF ahead = 0 /\ behind = 0 /\ tracking = None THEN "NO_UPSTREAM"
    ELSE "OK"

GitSummary(p, branch, ahead, behind, uncommitted, stash, worktree, status, pr_info) ==
    [path |-> p, vcs_type |-> "git", current_branch |-> branch,
     ahead_count |-> ahead, behind_count |-> behind, uncommitted_count |-> uncommitted,
     stash_count |-> stash, worktree_count |-> worktree, pr_info |-> pr_info,
     status |-> status]

\* The collector holds no summary yet.
NoGitSummary == GitSummary(NoValue, NoValue, 0, 0, 0, 0, 0, "LOADING", None)

\* The summary of the except branches (git_ops.py:283-312).
degraded_summary(p, exc) ==
    GitSummary(p, "?", 0, 0, 0, 0, 0, IF exc = "FileNotFoundError" THEN "NO_GIT" ELSE "WARNING",
               None)

\* The summary of the try branch: the repository has one uncommitted file,
\* one stash and one linked worktree.
full_summary(p, st, tools, tracking) ==
    GitSummary(p, current_branch_of(st), st.ahead, st.behind, 1, 1, 1,
               git_status(is_detached_of(st, tools), st.ahead, st.behind, tracking), None)

InitCollector ==
    /\ fs = [p \in Paths |-> [git |-> "dir", jj |-> "none"]]
    /\ InitFsIdle
    /\ InitBatchIdle
    /\ InitCacheIdle
    /\ installed \in SUBSET {"git", "gh"}
    /\ appState = "running"
    /\ repo_paths = <<CollectorPath>>
    /\ summaries = <<>>
    /\ current_view = "repo_list"
    /\ selected_repo = NoValue
    /\ workers = <<>>
    /\ detail = NoValue
    /\ refreshes = 0
    /\ repo_state \in RepoStates
    /\ cpc = "scheduled"
    /\ reads = [r \in ReadNames |-> "idle"]
    /\ gather_exc = None
    /\ csummary = NoGitSummary
    /\ cerror = None
    /\ cleanup = NoValue
    /\ InitAuxIdle

collectorFrame == <<fsVars, batchVars, appState, installed, repo_paths, current_view,
                    selected_repo, workers, detail, refreshes, now, lastCall, repo_state,
                    cleanup, auxVars>>

\* _load_repo_summary up to the gather: the selector, then the seven reads
\* are started together.
CollectorStart ==
    /\ cpc = "scheduled"
    /\ get_vcs_operations(fs[CollectorPath]) = "GitOperations"
    /\ cpc' = "gather"
    /\ reads' = [r \in ReadNames |-> "pending"]
    /\ UNCHANGED <<collectorFrame, caches, summaries, gather_exc, csummary, cerror>>

\* One read of the gather settles. A read keeps running after the gather
\* has propagated another read's exception (asyncio.gather does not cancel).
ReadSettles(r) ==
    /\ reads[r] = "pending"
    /\ LET out == read_outcome(r, repo_state, installed)
       IN  /\ reads' = [reads EXCEPT ![r] = IF out = "returned" THEN "returned" ELSE "raised"]
           /\ gather_exc' = IF out # "returned" /\ gather_exc = None THEN out ELSE gather_exc
           /\ caches' = IF out = "returned" /\ r \in {"stash_count", "worktree_count"}
                        THEN [caches EXCEPT !["commit_cache"] =
                                 set_dict(@, CollectorPath \o ":" \o r, "count", now)]
                        ELSE caches
    /\ UNCHANGED <<collectorFrame, summaries, cpc, csummary, cerror>>

\* The gather returns the seven results: the status policy, up to its await
\* of _get_tracking_branch or to the return of the summary.
GatherReturns ==
    /\ cpc = "gather"
    /\ \A r \in ReadNames : reads[r] = "returned"
    /\ IF ~is_detached_of(repo_state, installed) /\ repo_state.ahead = 0
          /\ repo_state.behind = 0
       THEN /\ cpc' = "tracking"
            /\ UNCHANGED csummary
       ELSE /\ cpc' = "upstream"
            /\ csummary' = full_summary(CollectorPath, repo_state, installed, None)
    /\ UNCHANGED <<collectorFrame, caches, summaries, reads, gather_exc, cerror>>

\* The gather propagates the first exception raised: an except branch
\* returns the degraded summary.
GatherRaises ==
    /\ cpc = "gather"
    /\ gather_exc # None
    /\ cpc' = "upstream"
    /\ csummary' = degraded_summary(CollectorPath, gather_exc)
    /\ UNCHANGED <<collectorFrame, caches, summaries, reads, gather_exc, cerror>>

\* tracking = await _get_tracking_branch(path, current_branch) has settled.
TrackingSettles ==
    /\ cpc = "tracking"
    /\ cpc' = "upstream"
    /\ csummary' = full_summary(CollectorPath, repo_state, installed,
                                tracking_of(repo_state, installed))
    /\ UNCHANGED <<collectorFrame, caches, summaries, reads, gather_exc, cerror>>

\* self._summaries[path] = summary
CollectorStore(summary) ==
    /\ summaries' = DictWith(summaries, CollectorPath, summary)
    /\ csummary' = summary
    /\ cpc' = "stored"
    /\ UNCHANGED cerror

\* An exception leaves _load_repo_summary: nothing is stored.
CollectorRaises(exc) ==
    /\ cpc' = "raised"
    /\ cerror' = exc
    /\ UNCHANGED <<summaries, csummary>>

\* upstream = await vcs_ops.get_upstream_repo(path) has settled; then the
\* pr_cache lookup, up to the next await or to the store.
UpstreamSettles ==
    /\ cpc = "upstream"
    /\ \E up \in UpstreamResults("GitOperations", installed, CollectorPath) :
          IF up = "FileNotFoundError"
          THEN CollectorRaises(up) /\ UNCHANGED caches
          ELSE IF up = None
          THEN CollectorStore(csummary) /\ UNCHANGED caches
          ELSE LET key == PrCacheKey(up, csummary.current_branch)
                   hit == get_return(caches["pr_cache"], "pr_cache", key, now)
               IN  /\ caches' = [caches EXCEPT !["pr_cache"] =
                                    get_dict(@, "pr_cache", key, now)]
                   /\ IF hit # None
                      THEN CollectorStore([csummary EXCEPT !.pr_info = hit])
                      ELSE /\ cpc' = "pr"
                           /\ UNCHANGED <<summaries, csummary, cerror>>
    /\ UNCHANGED <<collectorFrame, reads, gather_exc>>

\* pr_info = await get_pr_for_branch_async(path, branch) has settled.
PrSettles ==
    /\ cpc = "pr"
    /\ \E pr \in PrResults(installed) :
          IF pr = "FileNotFoundError"
          THEN CollectorRaises(pr) /\ UNCHANGED caches
          ELSE IF pr = None
          THEN CollectorStore(csummary) /\ UNCHANGED caches
          ELSE /\ caches' = [caches EXCEPT !["pr_cache"] =
                                set_dict(@, PrCacheKey(UpstreamOf(CollectorPath),
                                                       csummary.current_branch), pr, now)]
               /\ CollectorStore([csummary EXCEPT !.pr_info = pr])
    /\ UNCHANGED <<collectorFrame, reads, gather_exc>>

NextCollector ==
    \/ CollectorStart
    \/ \E r \in ReadNames : ReadSettles(r)
    \/ GatherReturns
    \/ GatherRaises
    \/ TrackingSettles
    \/ UpstreamSettles
    \/ PrSettles

SpecCollector == InitCollector /\ [][NextCollector]_vars

----------------------------------------------------------------------------
(* vcs_jj.py: JJOperations.get_repo_summary_async *)

\* The awaits of JJOperations.get_repo_summary_async, in program order.
JjReadNames ==
    {"current_branch", "ahead_behind", "status_counts", "worktree_count",
     "last_commit", "tracking"}

\* The awaits whose exception reaches the except branches of the summary.
JjUnguardedReads == {"current_branch", "status_counts", "worktree_count"}

\* What jj reports for the repository ("@": the working copy has no
\* bookmark), and the jj call (if any) that fails.
JjRepoStates ==
    [bookmark : {"@", "main"}, ahead : 0..MaxCommits, behind : 0..MaxCommits,
     upstream_exists : BOOLEAN, faulty : JjReadNames \cup {NoValue}]

\* _get_ahead_behind_async: any exception counts as (0, 0).
jj_ahead_behind(st) ==
    IF st.faulty = "ahead_behind" THEN <<0, 0>> ELSE <<st.ahead, st.behind>>

\* _check_tracking_exists: any exception counts as no tracking remote.
jj_tracking_exists(st) ==
    IF st.faulty = "tracking" THEN FALSE ELSE st.upstream_exists

\* The status policy of vcs_jj.py:295-305.
jj_status(bookmark, ahead, behind, upstream_exists) ==
    IF ahead = 0 /\ behind = 0 /\ bookmark # "@" /\ ~upstream_exists THEN "NO_UPSTREAM"
    ELSE "OK"

\* The keyword arguments of a RepoSummary(...) call of the jj backend.
JjSummaryArgs(branch, ahead, behind, unstaged, worktree, status) ==
    [vcs_type |-> "jj", current_branch |-> branch, ahead_count |-> ahead,
     behind_count |-> behind, staged_count |-> 0, unstaged_count |-> unstaged,
     untracked_count |-> 0, stash_count |-> 0, worktree_count |-> worktree,
     status |-> status]

NoJjSummaryArgs == JjSummaryArgs(NoValue, 0, 0, 0, 0, "LOADING")

\* The fields of the RepoSummary dataclass that a call may or must pass.
RepoSummaryFields ==
    {"path", "name", "vcs_type", "current_branch", "ahead_count", "behind_count",
     "uncommitted_count", "stash_count", "worktree_count", "pr_info", "last_modified",
     "status", "jj_is_colocated", "jj_working_copy_id"}

\* RepoSummary(**args): a keyword that is not a field raises TypeError.
repo_summary_accepts(args) == DOMAIN args \subseteq RepoSummaryFields

\* The body of the try block up to its RepoSummary(...) call: the call's
\* arguments, or the exception that leaves the block.
jj_try(st, tools) ==
    IF "jj" \notin tools THEN [exc |-> "FileNotFoundError", args |-> NoJjSummaryArgs]
    ELSE IF st.faulty \in JjUnguardedReads THEN [exc |-> "OSError", args |-> NoJjSummaryArgs]
    ELSE LET ab == jj_ahead_behind(st)
         IN  [exc |-> None,
              args |-> JjSummaryArgs(st.bookmark, ab[1], ab[2], 1, 0,
                                     jj_status(st.bookmark, ab[1], ab[2],
                                               jj_tracking_exists(st)))]

\* The RepoSummary(...) arguments of the except branches.
jj_except_args(exc) ==
    JjSummaryArgs("?", 0, 0, 0, 0, IF exc = "FileNotFoundError" THEN "NO_JJ" ELSE "WARNING")

InitJjSummary ==
    /\ fs = [p \in Paths |-> [git |-> "none", jj |-> "dir"]]
    /\ InitFsIdle
    /\ InitBatchIdle
    /\ InitCacheIdle
    /\ installed \in SUBSET {"jj"}
    /\ appState = "running"
    /\ repo_paths = <<>>
    /\ summaries = <<>>
    /\ current_view = "repo_list"
    /\ selected_repo = NoValue
    /\ workers = <<>>
    /\ detail = NoValue
    /\ refreshes = 0
    /\ repo_state \in JjRepoStates
    /\ cpc = "try"
    /\ reads = <<>>
    /\ gather_exc = None
    /\ csummary = NoJjSummaryArgs
    /\ cerror = None
    /\ cleanup = NoValue
    /\ InitAuxIdle

jjFrame == <<fsVars, batchVars, cacheVars, appVars, repo_state, reads, gather_exc, cleanup,
             auxVars>>

\* The try block runs to its RepoSummary(...) call, or an await raises and
\* an except branch runs to its own RepoSummary(...) call.
JjTry ==
    /\ cpc = "try"
    /\ LET t == jj_try(repo_state, installed)
       IN  IF t.exc = None
           THEN cpc' = "construct_try" /\ csummary' = t.args
           ELSE cpc' = "construct_except" /\ csummary' = jj_except_args(t.exc)
    /\ UNCHANGED <<jjFrame, cerror>>

\* The RepoSummary(...) call of the try block: its TypeError is caught by
\* `except Exception`, whose branch reaches a RepoSummary(...) call again.
JjConstructInTry ==
    /\ cpc = "construct_try"
    /\ IF repo_summary_accepts(csummary)
       THEN cpc' = "returned" /\ UNCHANGED csummary
       ELSE cpc' = "construct_except" /\ csummary' = jj_except_args("TypeError")
    /\ UNCHANGED <<jjFrame, cerror>>

\* The RepoSummary(...) call of an except branch: its TypeError leaves
\* get_repo_summary_async.
JjConstructInExcept ==
    /\ cpc = "construct_except"
    /\ IF repo_summary_accepts(csummary)
       THEN cpc' = "returned" /\ UNCHANGED cerror
       ELSE cpc' = "raised" /\ cerror' = "TypeError"
    /\ UNCHANGED <<jjFrame, csummary>>

NextJjSummary ==
    \/ JjTry
    \/ JjConstructInTry
    \/ JjConstructInExcept

SpecJjSummary == InitJjSummary /\ [][NextJjSummary]_vars

----------------------------------------------------------------------------
(* vcs_git.py: GitOperations.cleanup_merged_branches *)

\* Local branch names, in the order git branch lists them.
BranchOrder == <<"feature", "main", "master", "topic">>

BranchNames == {BranchOrder[i] : i \in 1..Len(BranchOrder)}

\* A git repository: its local branches, the branch checked out, and the
\* branches whose tip is reachable from the trunk (the trunk among them).
GitBranchStates ==
    {st \in [local : SUBSET BranchNames, current : BranchNames, merged : SUBSET BranchNames] :
        /\ st.current \in st.local
        /\ st.merged \subseteq st.local
        /\ ("main" \in st.local) => ("main" \in st.merged)
        /\ ("main" \notin st.local /\ "master" \in st.local) => ("master" \in st.merged)
        /\ ("main" \notin st.local /\ "master" \notin st.local) => (st.merged = {})}

\* git rev-parse --verify main fails: fall back to master.
git_trunk(st) == IF "main" \in st.local THEN "main" ELSE "master"

\* The lines of `git branch --merged <trunk>`: "* " marks the branch
\* checked out, "  " the others.
merged_lines(st) ==
    LET listed == SelectSeq(BranchOrder, LAMBDA b : b \in st.merged)
    IN  [i \in 1..Len(listed) |->
            [mark |-> IF listed[i] = st.current THEN "* " ELSE "  ", name |-> listed[i]]]

\* b.strip().lstrip("* "): the marker is dropped, the name is kept.
strip_marker(line) == line.name

\* The branches the loop is run on: the stripped lines other than the
\* trunk, "master" and "HEAD".
branches_to_delete(lines, main_branch) ==
    LET names == [i \in 1..Len(lines) |-> strip_marker(lines[i])]
    IN  SelectSeq(names, LAMBDA b : b \notin {main_branch, "master", "HEAD"})

\* git branch -d refuses the branch checked out; it may also refuse another
\* branch (not merged into its upstream or into HEAD).
delete_outcomes(st, b) == IF b = st.current THEN {FALSE} ELSE {TRUE, FALSE}

Cleanup(pc, trunk, todo, attempted, deleted, failed, result) ==
    [pc |-> pc, trunk |-> trunk, todo |-> todo, attempted |-> attempted,
     deleted |-> deleted, failed |-> failed, result |-> result]

NoResult == <<FALSE, NoValue>>

InitGitCleanup ==
    /\ fs = [p \in Paths |-> [git |-> "dir", jj |-> "none"]]
    /\ InitFsIdle
    /\ InitBatchIdle
    /\ InitCacheIdle
    /\ cpc = "idle"
    /\ reads = <<>>
    /\ gather_exc = None
    /\ csummary = NoValue
    /\ cerror = None
    /\ repo_state \in GitBranchStates
    /\ installed \in SUBSET {"git"}
    /\ appState = "running"
    /\ repo_paths = <<>>
    /\ summaries = <<>>
    /\ current_view = "repo_list"
    /\ selected_repo = NoValue
    /\ workers = <<>>
    /\ detail = NoValue
    /\ refreshes = 0
    /\ cleanup = Cleanup("start", NoValue, <<>>, <<>>, <<>>, <<>>, NoResult)
    /\ InitAuxIdle

cleanupFrame == <<fsVars, batchVars, cacheVars, appVars, cpc, reads, gather_exc,
                  csummary, cerror, auxVars>>

\* The result tuple of the git cleanup (vcs_git.py:203-210).
git_cleanup_result(deleted, failed) ==
    IF deleted # <<>> /\ failed = <<>> THEN <<TRUE, "Deleted">>
    ELSE IF deleted # <<>> THEN <<TRUE, "Deleted, failed">>
    ELSE <<FALSE, "Failed to delete branches">>

\* The trunk is determined and the merged branches are listed and filtered.
GitCleanupList ==
    /\ cleanup.pc = "start"
    /\ IF "git" \notin installed
       THEN cleanup' = [cleanup EXCEPT !.pc = "returned", !.result = <<FALSE, "Error">>]
       ELSE LET trunk == git_trunk(repo_state)
                todo == branches_to_delete(merged_lines(repo_state), trunk)
            IN  IF todo = <<>>
                THEN cleanup' = [cleanup EXCEPT !.pc = "returned", !.trunk = trunk,
                                    !.result = <<TRUE, "No merged branches to clean up">>]
                ELSE cleanup' = [cleanup EXCEPT !.pc = "loop", !.trunk = trunk, !.todo = todo]
    /\ UNCHANGED <<cleanupFrame, repo_state>>

\* A loop that gives up at the first branch git refuses to delete.
git_cleanup_delete_stopping ==
    /\ cleanup.pc = "loop"
    /\ cleanup.todo # <<>>
    /\ LET b == Head(cleanup.todo)
       IN  \E ok \in delete_outcomes(repo_state, b) :
              /\ cleanup' = [cleanup EXCEPT !.todo = IF ok THEN Tail(@) ELSE <<>>,
                                !.attempted = Append(@, b),
                                !.deleted = IF ok THEN Append(@, b) ELSE @,
                                !.failed = IF ok THEN @ ELSE Append(@, b)]
              /\ repo_state' = IF ok THEN [repo_state EXCEPT !.local = @ \ {b},
                                                             !.merged = @ \ {b}]
                               ELSE repo_state
    /\ UNCHANGED cleanupFrame

\* One iteration of the loop: git branch -d <branch>.
GitCleanupDelete ==
    /\ cleanup.pc = "loop"
    /\ cleanup.todo # <<>>
    /\ LET b == Head(cleanup.todo)
       IN  \E ok \in delete_outcomes(repo_state, b) :
              /\ cleanup' = [cleanup EXCEPT !.todo = Tail(@),
                                !.attempted = Append(@, b),
                                !.deleted = IF ok THEN Append(@, b) ELSE @,
                                !.failed = IF ok THEN @ ELSE Append(@, b)]
              /\ repo_state' = IF ok THEN [repo_state EXCEPT !.local = @ \ {b},
                                                             !.merged = @ \ {b}]
                               ELSE repo_state
    /\ UNCHANGED cleanupFrame

GitCleanupReturn ==
    /\ cleanup.pc = "loop"
    /\ cleanup.todo = <<>>
    /\ cleanup' = [cleanup EXCEPT !.pc = "returned",
                       !.result = git_cleanup_result(cleanup.deleted, cleanup.failed)]
    /\ UNCHANGED <<cleanupFrame, repo_state>>

NextGitCleanup ==
    \/ GitCleanupList
    \/ GitCleanupDelete
    \/ GitCleanupReturn

SpecGitCleanup == InitGitCleanup /\ [][NextGitCleanup]_vars

----------------------------------------------------------------------------
(* vcs_jj.py: JJOperations.cleanup_merged_branches *)

\* Bookmark names, in the order jj bookmark list prints them.
BookmarkOrder == <<"feature", "main", "topic", "trunk">>

BookmarkNames == {BookmarkOrder[i] : i \in 1..Len(BookmarkOrder)}

ProtectedBookmarks == {"main", "master", "trunk"}

\* How <bookmark>@origin lies to main@origin: "none" (the bookmark has no
\* remote counterpart), "behind" (a strict ancestor of main@origin), "equal",
\* "ahead" (a strict descendant: work that main@origin does not hold) or
\* "diverged".
Relations == {"none", "behind", "equal", "ahead", "diverged"}

\* A jj repository: its bookmarks, how each lies to main@origin, the
\* bookmark of the working copy ("@": none), whether main@origin exists, and
\* the bookmark (if any) whose merged check raises.
JjBookmarkStates ==
    {st \in [present : SUBSET BookmarkNames, rel : [BookmarkNames -> Relations],
             current : BookmarkNames \cup {"@"}, trunk_remote : BOOLEAN,
             faulty : (BookmarkNames \ ProtectedBookmarks) \cup {NoValue}] :
        /\ st.current \in st.present \cup {"@"}
        /\ \A b \in BookmarkNames :
              (b \notin st.present \/ b \in ProtectedBookmarks) => st.rel[b] = "none"
        /\ st.faulty \in st.present \cup {NoValue}}

\* The bookmark is merged into the trunk: everything reachable from its
\* remote counterpart is reachable from main@origin.
merged_into_trunk(st, b) == st.trunk_remote /\ st.rel[b] \in {"behind", "equal"}

\* jj log -r "<bookmark>@origin..main@origin" prints nothing: main@origin
\* holds no changeset that <bookmark>@origin lacks, or a revision does not
\* exist and jj fails (_run_jj_async returns the empty stdout all the same).
revset_is_empty(st, b) ==
    \/ ~st.trunk_remote
    \/ st.rel[b] \in {"none", "equal", "ahead"}

InitJjCleanup ==
    /\ fs = [p \in Paths |-> [git |-> "none", jj |-> "dir"]]
    /\ InitFsIdle
    /\ InitBatchIdle
    /\ InitCacheIdle
    /\ cpc = "idle"
    /\ reads = <<>>
    /\ gather_exc = None
    /\ csummary = NoValue
    /\ cerror = None
    /\ repo_state \in JjBookmarkStates
    /\ installed \in SUBSET {"jj"}
    /\ appState = "running"
    /\ repo_paths = <<>>
    /\ summaries = <<>>
    /\ current_view = "repo_list"
    /\ selected_repo = NoValue
    /\ workers = <<>>
    /\ detail = NoValue
    /\ refreshes = 0
    /\ cleanup = Cleanup("start", "main", <<>>, <<>>, <<>>, <<>>, NoResult)
    /\ InitAuxIdle

\* jj bookmark list: one line per bookmark.
JjCleanupList ==
    /\ cleanup.pc = "start"
    /\ IF "jj" \notin installed
       THEN cleanup' = [cleanup EXCEPT !.pc = "returned", !.result = <<FALSE, "Cleanup failed">>]
       ELSE cleanup' = [cleanup EXCEPT !.pc = "loop",
                           !.todo = SelectSeq(BookmarkOrder,
                                              LAMBDA b : b \in repo_state.present)]
    /\ UNCHANGED <<cleanupFrame, repo_state>>

\* One iteration of the loop over the lines: a protected name is skipped;
\* otherwise the merged check, and the delete when it printed nothing.
JjCleanupStep ==
    /\ cleanup.pc = "loop"
    /\ cleanup.todo # <<>>
    /\ LET b == Head(cleanup.todo)
           delete == /\ b \notin ProtectedBookmarks
                     /\ repo_state.faulty # b
                     /\ revset_is_empty(repo_state, b)
       IN  /\ cleanup' = [cleanup EXCEPT !.todo = Tail(@),
                             !.attempted = IF delete THEN Append(@, b) ELSE @,
                             !.deleted = IF delete THEN Append(@, b) ELSE @]
           /\ repo_state' = IF delete THEN [repo_state EXCEPT !.present = @ \ {b}]
                            ELSE repo_state
    /\ UNCHANGED cleanupFrame

JjCleanupReturn ==
    /\ cleanup.pc = "loop"
    /\ cleanup.todo = <<>>
    /\ cleanup' = [cleanup EXCEPT !.pc = "returned",
                       !.result = IF cleanup.deleted # <<>>
                                  THEN <<TRUE, "Deleted merged bookmarks">>
                                  ELSE <<TRUE, "No merged bookmarks to delete">>]
    /\ UNCHANGED <<cleanupFrame, repo_state>>

NextJjCleanup ==
    \/ JjCleanupList
    \/ JjCleanupStep
    \/ JjCleanupReturn

SpecJjCleanup == InitJjCleanup /\ [][NextJjCleanup]_vars

----------------------------------------------------------------------------
(* Claims about the batch task runner (SpecBatch) *)

Raised(i) == i \in 1..Len(taskOutcome) /\ taskOutcome[i].kind = "raise"

C2_RaiseBecomesFailedResult ==
    /\ Len(taskOutcome) = Len(results)
    /\ \A i \in 1..Len(results) :
          IF taskOutcome[i].kind = "raise"
          THEN /\ results[i].success = FALSE
               /\ results[i].message = "Error: " \o taskOutcome[i].text
          ELSE /\ results[i].success = taskOutcome[i].success
               /\ results[i].message = taskOutcome[i].text

C2_Witness ==
    /\ bpc = "done"
    /\ Len(results) = 3
    /\ Raised(2)
    /\ results[1].success
    /\ ~Raised(3) /\ ~results[3].success

\* C3: a repository whose backend cannot be resolved does not abort the run:
\* the run ends only by returning, with one result per input repository.
C3_SelectorFailureDoesNotAbort ==
    (~ENABLED NextBatch) => (bpc = "done" /\ Len(results) = Len(repos))

\* C4: the operations run strictly one after the other in input order: at
\* most one is in progress, and the operation of repository i+1 has not
\* started before that of repository i has returned or raised.
C4_StrictlySequential ==
    /\ Cardinality({i \in 1..Len(repos) : taskState[i] = "running"}) <= 1
    /\ \A i \in 1..(Len(repos) - 1) :
          taskState[i + 1] # "pending" => taskState[i] = "finished"

C4_Witness ==
    /\ Len(repos) = 3
    /\ taskState[1] = "finished"
    /\ taskState[2] = "running"
    /\ taskState[3] = "pending"

----------------------------------------------------------------------------
(* Claims about the TTL caches (SpecCache, SpecCacheFrame) *)

GetCalled == lastCall.op = "get"

\* C9 as stated: get(k) serves the stored value while the entry's age has not
\* exceeded the TTL (age <= TTL), and returns absent and removes the entry
\* once the age exceeds it.
C9_ServedUntilAgeExceedsTtl ==
    GetCalled =>
        IF lastCall.found /\ lastCall.age <= ttl(lastCall.cache)
        THEN /\ lastCall.ret # None
             /\ lastCall.key \in DOMAIN caches[lastCall.cache]
        ELSE /\ lastCall.ret = None
             /\ lastCall.key \notin DOMAIN caches[lastCall.cache]

\* What a get returns and leaves, by the age of the entry it found.
C9_GetByAge ==
    GetCalled =>
        IF lastCall.found /\ lastCall.age < ttl(lastCall.cache)
        THEN /\ lastCall.ret # None
             /\ lastCall.key \in DOMAIN caches[lastCall.cache]
             /\ lastCall.ret = caches[lastCall.cache][lastCall.key].data
        ELSE /\ lastCall.ret = None
             /\ lastCall.key \notin DOMAIN caches[lastCall.cache]

\* set(k, v) stores v with the current time.
C9_SetStores ==
    lastCall.op = "set" =>
        /\ lastCall.key \in DOMAIN caches[lastCall.cache]
        /\ caches[lastCall.cache][lastCall.key] = CacheEntry(lastCall.data, now)

\* A get that serves a value changes no entry.
C9_HitKeepsEntries ==
    (lastCall'.op = "get" /\ lastCall'.ret # None) => caches' = caches

\* An entry disappears only by a get that found it stale, or by a clear of
\* its instance.
C9_RemovedOnlyByGetOrClear ==
    \A c \in CacheNames, k \in Keys :
        (k \in DOMAIN caches[c] /\ k \notin DOMAIN caches'[c]) =>
            \/ lastCall'.op = "clear" /\ lastCall'.cache = c
            \/ /\ lastCall'.op = "get" /\ lastCall'.cache = c /\ lastCall'.key = k
               /\ lastCall'.found /\ lastCall'.age >= ttl(c)

\* C9 (amended): right after set(k, v), get(k) returns v; get(k) returns v
\* while the entry's age is strictly less than the TTL; once the age reaches
\* or exceeds the TTL, get(k) returns absent and removes the entry; entries
\* are removed only by such a get or by clear.
C9_TtlCacheContract ==
    /\ [](C9_GetByAge /\ C9_SetStores)
    /\ [][C9_HitKeepsEntries /\ C9_RemovedOnlyByGetOrClear]_vars

\* A get of an entry whose age equals the TTL exactly: absent, and removed.
C9_Witness ==
    /\ GetCalled
    /\ lastCall.cache = "pr_cache"
    /\ lastCall.found
    /\ lastCall.age = PrTtl
    /\ lastCall.ret = None
    /\ lastCall.key \notin DOMAIN caches["pr_cache"]

C10_ClearEmptiesInstance ==
    lastCall.op = "clear" => DOMAIN caches[lastCall.cache] = {}

C10_OtherInstancesUntouched ==
    IF lastCall'.op = "none"
    THEN caches' = caches
    ELSE \A d \in CacheNames \ {lastCall'.cache} : caches'[d] = caches[d]

\* C10: clear() removes every entry of its instance whatever the entries'
\* ages, and a get, set or clear on one instance changes no entry of another.
C10_ClearAndIndependence ==
    /\ []C10_ClearEmptiesInstance
    /\ [][C10_OtherInstancesUntouched]_vars

\* A clear of an instance that held an aged entry, while another instance
\* still holds its own.
C10_Witness ==
    /\ lastCall.op = "clear"
    /\ lastCall.size >= 1
    /\ lastCall.age >= 1
    /\ \E d \in CacheNames \ {lastCall.cache} : DOMAIN caches[d] # {}

----------------------------------------------------------------------------
(* Claims about the backend selector (SpecSelector) *)

\* C5: detect_vcs_type answers jj whenever .jj is a directory (also when .git
\* exists), git when only .git is a directory, and no backend otherwise; the
\* answer depends on the marker state alone, not on the order in which the
\* markers were created nor on earlier calls.
C5_SelectionByMarkers ==
    /\ \A i \in 1..Len(detected) :
          detected[i].vcs_type =
              (IF detected[i].kinds.jj = "dir" THEN "jj"
               ELSE IF detected[i].kinds.git = "dir" THEN "git"
               ELSE "None")
    /\ \A i, j \in 1..Len(detected) :
          detected[i].kinds = detected[j].kinds =>
              detected[i].vcs_type = detected[j].vcs_type

\* Two calls on colocated repositories whose markers were created in
\* opposite orders, both answered jj.
C5_Witness ==
    /\ Len(detected) = 2
    /\ detected[1].order = <<"git", "jj">>
    /\ detected[2].order = <<"jj", "git">>
    /\ detected[1].kinds = [git |-> "dir", jj |-> "dir"]
    /\ detected[2].kinds = [git |-> "dir", jj |-> "dir"]
    /\ detected[1].vcs_type = "jj"
    /\ detected[2].vcs_type = "jj"

----------------------------------------------------------------------------
(* Claims about the dashboard's collectors and the full refresh (SpecApp) *)

DiscoveredPaths == {repo_paths[i] : i \in 1..Len(repo_paths)}

NoMarkerDir(p) == ~is_dir(fs[p], "jj") /\ ~is_dir(fs[p], "git")

CollectorsOf(gen) == {i \in 1..Len(workers) : workers[i].gen = gen}

Finished(i) == workers[i].pc \in {"done", "failed"}

\* C6: for a path with neither marker directory, the collector's call of
\* get_vcs_operations fails with the no-repository error (ValueError) and the
\* summary map never holds an entry for that path.
C6_NoSummaryWithoutMarker ==
    \A p \in Paths :
        NoMarkerDir(p) =>
            /\ p \notin DOMAIN summaries
            /\ \A i \in 1..Len(workers) :
                   workers[i].path = p =>
                       \/ workers[i].pc = "scheduled"
                       \/ workers[i].pc = "failed" /\ workers[i].error = "ValueError"

\* A discovered path (.git is a file, no .jj directory) whose collector ran,
\* failed with ValueError and left no summary.
C6_Witness ==
    \E i \in 1..Len(workers) :
        /\ NoMarkerDir(workers[i].path)
        /\ workers[i].pc = "failed"
        /\ workers[i].error = "ValueError"
        /\ workers[i].path \notin DOMAIN summaries

\* C7: after a full refresh, once every collector that refresh launched has
\* finished, the summary map has exactly one entry per discovered path and
\* each entry's path field equals its key.
C7_OneSummaryPerDiscoveredPath ==
    (refreshes > 0 /\ \A i \in CollectorsOf(refreshes) : Finished(i)) =>
        /\ DOMAIN summaries = DiscoveredPaths
        /\ \A p \in DOMAIN summaries : summaries[p].path = p

\* C8: a full refresh, from the list view or from the detail view, leaves
\* every TTL cache instance and the summary map empty and launches one new
\* collector for every discovered path.
C8_RefreshStep ==
    refreshes' = refreshes + 1 =>
        /\ \A c \in CacheNames : caches'[c] = EmptyDict
        /\ summaries' = [p \in {} |-> NoSummary]
        /\ workers' = start_progressive_load(workers, repo_paths, refreshes')

C8_RefreshRelaunchesFromAnyView == [][C8_RefreshStep]_vars

----------------------------------------------------------------------------
(* Claims about one git collector (SpecCollector) *)

ReadRaised(st) == st.faulty \in UnguardedReads

\* The mtime fallback of the last-modified read fails with git installed.
MtimeFallbackFails(st, tools) == "git" \in tools /\ st.faulty = "mtime"

HasSummary == csummary.status # "LOADING"

NoUpstreamCase(st, tools) ==
    st.ahead = 0 /\ st.behind = 0 /\ tracking_of(st, tools) = None

\* The status the rules give when taken in the order: git missing, detached
\* HEAD, no upstream, other exception, OK.
StatusInStatedOrder(st, tools) ==
    IF "git" \notin tools THEN "NO_GIT"
    ELSE IF is_detached_of(st, tools) THEN "DETACHED_HEAD"
    ELSE IF NoUpstreamCase(st, tools) THEN "NO_UPSTREAM"
    ELSE IF ReadRaised(st) THEN "WARNING"
    ELSE "OK"

\* The same rules with the other exception taken right after git missing.
StatusExceptionFirst(st, tools) ==
    IF "git" \notin tools THEN "NO_GIT"
    ELSE IF ReadRaised(st) THEN "WARNING"
    ELSE IF is_detached_of(st, tools) THEN "DETACHED_HEAD"
    ELSE IF NoUpstreamCase(st, tools) THEN "NO_UPSTREAM"
    ELSE "OK"

ReadSettled(r) == reads[r] \in {"returned", "raised"}

\* C14: the write of a path's summary into the summary map happens only
\* after every read call of that path's collector has completed or failed.
C14_StoreStep ==
    summaries' # summaries => \A r \in ReadNames : ReadSettled(r)

C14_StoreAfterAllReadsSettled == [][C14_StoreStep]_vars

----------------------------------------------------------------------------
(* Claims about collectors whose backend is missing or is jj (SpecApp) *)

BackendMissing(w) == w.ops # NoValue /\ VcsTypeOf(w.ops) \notin installed

\* C12: a collector whose backend executable is not installed does not
\* raise; the summary it produces for its path has status NO_GIT (git) or
\* NO_JJ (jj) and current ref "?".
C12_MissingBackendDegradesSummary ==
    \A i \in 1..Len(workers) :
        BackendMissing(workers[i]) =>
            /\ workers[i].pc # "failed"
            /\ workers[i].path \in DOMAIN summaries =>
                   /\ summaries[workers[i].path].current_branch = "?"
                   /\ summaries[workers[i].path].status =
                          (IF workers[i].ops = "GitOperations" THEN "NO_GIT" ELSE "NO_JJ")

----------------------------------------------------------------------------
(* Claims about the jj summary (SpecJjSummary) *)

JjFinished == cpc \in {"returned", "raised"}

\* C13: for the jj backend, a working copy without bookmark (current ref
\* "@") is collected into a summary of status DETACHED_HEAD.
C13_AnonymousWorkingCopyIsDetached ==
    (JjFinished /\ repo_state.bookmark = "@" /\ "jj" \in installed
        /\ repo_state.faulty \notin JjUnguardedReads) =>
        /\ cpc = "returned"
        /\ csummary.current_branch = "@"
        /\ csummary.status = "DETACHED_HEAD"

----------------------------------------------------------------------------
(* Claims about the fleet of collectors (SpecApp) *)

InFlight(i) == workers[i].pc \in {"scheduled", "collecting", "pr"}

CollectorStep(i) == WorkerStart(i) \/ Collected(i) \/ PrDone(i)

\* C15: summaries are published progressively. While the app runs, every
\* collector in flight can take its next step, up to the write of its
\* summary, whatever the positions of the other collectors: a collector
\* that is slow or never finishes does not hold back another path.
C15_CollectorsIndependent ==
    appState = "running" =>
        \A i \in 1..Len(workers) : InFlight(i) => ENABLED CollectorStep(i)

\* The summary of one path is in the map while the collector of the other
\* path, launched before it, has not even started.
C15_Witness ==
    /\ appState = "running"
    /\ Len(workers) >= 2
    /\ workers[1].pc = "scheduled"
    /\ workers[2].pc = "done"
    /\ workers[2].path # workers[1].path
    /\ workers[2].path \in DOMAIN summaries
    /\ workers[1].path \notin DOMAIN summaries

\* C16: no error met while collecting one path is raised out of its
\* collector, and none ends the collection of the other paths.
C16_ErrorsStayInsideCollector ==
    /\ \A i \in 1..Len(workers) : workers[i].pc # "failed"
    /\ appState # "exited"

\* C17: the summary map has a single writer per key: at no time are two
\* collectors of the same path in flight together, a refresh triggered
\* during a load included.
C17_SingleWriterPerKey ==
    \A i, j \in 1..Len(workers) :
        (i # j /\ InFlight(i) /\ InFlight(j)) => workers[i].path # workers[j].path

----------------------------------------------------------------------------
(* Claims about cleanup_merged_branches (SpecGitCleanup, SpecJjCleanup) *)

Tried == {cleanup.attempted[i] : i \in 1..Len(cleanup.attempted)}

Deleted == {cleanup.deleted[i] : i \in 1..Len(cleanup.deleted)}

\* C18: the branches the git cleanup tries to delete never include the
\* trunk branch nor the branch checked out.
C18_NeverTriesTrunkOrCurrent ==
    \A b \in Tried : b # cleanup.trunk /\ b # repo_state.current

\* C19: the jj cleanup never deletes a protected trunk bookmark (main,
\* master, trunk) nor the bookmark of the working copy.
C19_NeverDeletesProtectedOrCurrent ==
    \A b \in Deleted : b \notin ProtectedBookmarks /\ b # repo_state.current

\* C20: the jj cleanup deletes a bookmark only if it is merged into the
\* trunk; a bookmark whose merged check cannot be evaluated (no remote
\* counterpart of the bookmark or of the trunk, or a failing check) is not
\* deleted.
C20_DeletesOnlyMerged ==
    \A b \in Deleted : merged_into_trunk(repo_state, b) /\ repo_state.faulty # b

----------------------------------------------------------------------------
(* vcs_jj.py: the stash operations of the jj backend (SpecJjStash) *)

MaxStashCalls == 2

StashNames == {"stash@{0}", "stash@{1}", ""}

\* What a repository directory can be when a stash operation is called on it.
JjStashRepoStates ==
    [kind : {"jj", "colocated", "git", "missing"}, dirty : BOOLEAN]

\* The outcome of one awaited call: a returned count, a returned list, or a
\* raised exception.
ReturnsCount(n) == [kind |-> "count", count |-> n, list |-> <<>>, exc |-> None]

ReturnsList(l) == [kind |-> "list", count |-> 0, list |-> l, exc |-> None]

RaisesExc(e) == [kind |-> "raised", count |-> 0, list |-> <<>>, exc |-> e]

Call(op, path, arg, outcome) ==
    [op |-> op, path |-> path, arg |-> arg, outcome |-> outcome]

\* JJOperations.get_stash_count: return 0.
jj_get_stash_count(st, tools) == ReturnsCount(0)

\* JJOperations.get_stash_list: return [].
jj_get_stash_list(st, tools) == ReturnsList(<<>>)

jj_get_stash_detail_returning_empty(st, tools, stash_name) == ReturnsList(<<>>)

\* JJOperations.get_stash_detail: raise NotImplementedError.
jj_get_stash_detail(st, tools, stash_name) == RaisesExc("NotImplementedError")

InitJjStash ==
    /\ fs = [p \in Paths |-> [git |-> "none", jj |-> "dir"]]
    /\ InitFsIdle
    /\ InitBatchIdle
    /\ InitCacheIdle
    /\ cpc = "idle"
    /\ reads = <<>>
    /\ gather_exc = None
    /\ csummary = NoValue
    /\ cerror = None
    /\ repo_state \in [Paths -> JjStashRepoStates]
    /\ installed \in SUBSET {"jj"}
    /\ appState = "running"
    /\ repo_paths = <<>>
    /\ summaries = <<>>
    /\ current_view = "repo_list"
    /\ selected_repo = NoValue
    /\ workers = <<>>
    /\ detail = NoValue
    /\ refreshes = 0
    /\ cleanup = NoValue
    /\ calls = <<>>
    /\ popup = NoValue
    /\ modal = NoValue

callFrame == <<fsVars, batchVars, cacheVars, appVars, collVars, cleanup, popup, modal>>

JjGetStashCount(p) ==
    /\ Len(calls) < MaxStashCalls
    /\ calls' = Append(calls, Call("get_stash_count", p, NoValue,
                                   jj_get_stash_count(repo_state[p], installed)))
    /\ UNCHANGED callFrame

JjGetStashList(p) ==
    /\ Len(calls) < MaxStashCalls
    /\ calls' = Append(calls, Call("get_stash_list", p, NoValue,
                                   jj_get_stash_list(repo_state[p], installed)))
    /\ UNCHANGED callFrame

JjGetStashDetail(p, stash_name) ==
    /\ Len(calls) < MaxStashCalls
    /\ calls' = Append(calls, Call("get_stash_detail", p, stash_name,
                                   jj_get_stash_detail(repo_state[p], installed, stash_name)))
    /\ UNCHANGED callFrame

NextJjStash ==
    \/ \E p \in Paths : JjGetStashCount(p)
    \/ \E p \in Paths : JjGetStashList(p)
    \/ \E p \in Paths, n \in StashNames : JjGetStashDetail(p, n)

SpecJjStash == InitJjStash /\ [][NextJjStash]_vars

----------------------------------------------------------------------------
(* Claims about the jj stash operations (SpecJjStash) *)

CallsOf(op) == {i \in 1..Len(calls) : calls[i].op = op}

\* C21: on the jj backend get_stash_list returns the empty list and
\* get_stash_count returns 0 for every repository in every state, and
\* get_stash_detail raises the unsupported error for every stash name: it
\* never returns a value.
C21_JjStashUnsupported ==
    /\ \A i \in CallsOf("get_stash_count") :
           calls[i].outcome.kind = "count" /\ calls[i].outcome.count = 0
    /\ \A i \in CallsOf("get_stash_list") :
           calls[i].outcome.kind = "list" /\ calls[i].outcome.list = <<>>
    /\ \A i \in CallsOf("get_stash_detail") :
           calls[i].outcome.kind = "raised" /\ calls[i].outcome.exc = "NotImplementedError"

C21_Witness ==
    /\ CallsOf("get_stash_detail") # {}
    /\ CallsOf("get_stash_count") \cup CallsOf("get_stash_list") # {}
    /\ \E i \in 1..Len(calls) : repo_state[calls[i].path].dirty

----------------------------------------------------------------------------
(* filters.py: filter_repos_multi over a summary map (SpecFilter) *)

MaxFilters == 2

FilterModes == {"ahead", "behind", "dirty", "has_pr", "has_stash"}

\* models.py ActiveFilter: a mode and its inversion.
ActiveFilter(mode, inverted) == [mode |-> mode, inverted |-> inverted]

ActiveFilters == {ActiveFilter(mode, inv) : mode \in FilterModes, inv \in BOOLEAN}

\* The fields of RepoSummary the filter predicates read.
FilterSummaries ==
    [ahead_count : {0, 2}, behind_count : {0, 1}, uncommitted_count : {0, 3},
     stash_count : {0, 1}, pr_info : {None, "pr"}]

\* A repository with nothing to report, and one with everything.
CleanSummary ==
    [ahead_count |-> 0, behind_count |-> 0, uncommitted_count |-> 0,
     stash_count |-> 0, pr_info |-> None]

BusySummary ==
    [ahead_count |-> 2, behind_count |-> 1, uncommitted_count |-> 3,
     stash_count |-> 1, pr_info |-> "pr"]

\* dict[Path, RepoSummary]: the maps over every subset of the paths; the first
\* path takes every summary, the second a clean or a busy one.
FilterMaps ==
    {d \in UNION {[S -> FilterSummaries] : S \in SUBSET Paths} :
        "p2" \in DOMAIN d => d["p2"] \in {CleanSummary, BusySummary}}

\* {p: s for p, s in summaries.items() if keep(s)}
DictWhere(d, keep(_)) == [p \in {q \in DOMAIN d : keep(d[q])} |-> d[p]]

\* _get_filter_predicate
get_filter_predicate(mode, s) ==
    CASE mode = "dirty"     -> s.ahead_count > 0 \/ s.uncommitted_count > 0
      [] mode = "ahead"     -> s.ahead_count > 0
      [] mode = "behind"    -> s.behind_count > 0
      [] mode = "has_pr"    -> s.pr_info # None
      [] mode = "has_stash" -> s.stash_count > 0
      [] OTHER              -> TRUE

\* _apply_single_filter: a new dict with the entries the (inverted) predicate keeps.
apply_single_filter(d, active_filter) ==
    LET keep(s) == IF active_filter.inverted
                   THEN ~get_filter_predicate(active_filter.mode, s)
                   ELSE get_filter_predicate(active_filter.mode, s)
    IN  DictWhere(d, keep)

RECURSIVE apply_filters(_, _)
apply_filters(filtered, active_filters) ==
    IF active_filters = <<>> THEN filtered
    ELSE apply_filters(apply_single_filter(filtered, Head(active_filters)),
                       Tail(active_filters))

filter_repos_multi_first_only(d, active_filters) ==
    [ret |-> IF active_filters = <<>> THEN d
             ELSE apply_single_filter(d, Head(active_filters)),
     summaries |-> d]

\* filter_repos_multi with an empty search text: the value returned and the
\* argument dict as the call leaves it (the loop works on a copy).
filter_repos_multi(d, active_filters) ==
    [ret |-> IF active_filters = <<>> THEN d ELSE apply_filters(d, active_filters),
     summaries |-> d]

InitFilter ==
    /\ fs = [p \in Paths |-> [git |-> "dir", jj |-> "none"]]
    /\ InitFsIdle
    /\ InitBatchIdle
    /\ InitCacheIdle
    /\ InitCollectorIdle
    /\ installed = {"git", "jj", "gh"}
    /\ appState = "running"
    /\ repo_paths = <<>>
    /\ summaries \in FilterMaps
    /\ current_view = "repo_list"
    /\ selected_repo = NoValue
    /\ workers = <<>>
    /\ detail = NoValue
    /\ refreshes = 0
    /\ cleanup = NoValue
    /\ calls = <<>>
    /\ popup = NoValue
    /\ modal = NoValue

filterFrame == <<fsVars, batchVars, cacheVars, installed, appState, repo_paths, current_view,
                 selected_repo, workers, detail, refreshes, collVars, cleanup, popup, modal>>

FilterReposMulti(active_filters) ==
    /\ calls = <<>>
    /\ LET out == filter_repos_multi(summaries, active_filters)
       IN  /\ calls' = <<[op |-> "filter_repos_multi", summaries |-> summaries,
                          active_filters |-> active_filters, ret |-> out.ret]>>
           /\ summaries' = out.summaries
    /\ UNCHANGED filterFrame

NextFilter == \E active_filters \in SeqsUpTo(ActiveFilters, MaxFilters) :
                  FilterReposMulti(active_filters)

SpecFilter == InitFilter /\ [][NextFilter]_vars

----------------------------------------------------------------------------
(* Claims about filter composition (SpecFilter) *)

\* The rearrangements of a filter list.
FilterPermutations(fl) ==
    {[i \in 1..Len(fl) |-> fl[g[i]]] :
        g \in {h \in [1..Len(fl) -> 1..Len(fl)] :
                  \A i, j \in 1..Len(fl) : h[i] = h[j] => i = j}}

Satisfies(s, f) == get_filter_predicate(f.mode, s) # f.inverted

\* C22: filter_repos_multi returns exactly the entries of the summary map
\* that satisfy every active filter, every permutation of the filter list
\* gives the same result, and the input map is left unchanged.
C22_FiltersComposeAsAnd ==
    \A i \in 1..Len(calls) :
        LET c == calls[i]
            all == {p \in DOMAIN c.summaries :
                       \A k \in 1..Len(c.active_filters) :
                           Satisfies(c.summaries[p], c.active_filters[k])}
        IN  /\ c.ret = [p \in all |-> c.summaries[p]]
            /\ \A fl \in FilterPermutations(c.active_filters) :
                   filter_repos_multi(c.summaries, fl).ret = c.ret
            /\ summaries = c.summaries

C22_Witness ==
    \E i \in 1..Len(calls) :
        /\ Len(calls[i].active_filters) = 2
        /\ calls[i].active_filters[1].mode # calls[i].active_filters[2].mode
        /\ calls[i].active_filters[2].inverted
        /\ DOMAIN calls[i].ret # {}
        /\ DOMAIN calls[i].ret # DOMAIN calls[i].summaries
        /\ apply_single_filter(calls[i].summaries, calls[i].active_filters[1]) # calls[i].ret

----------------------------------------------------------------------------
(* vcs_jj.py: the workspace operations of the jj backend (SpecJjWorkspace) *)

MaxWorkspaceCalls == 2

WorkspaceNames == {"alpha", "default", "zeta"}

\* What `jj workspace list` prints, one line `<name>@<change>: <path>` per
\* workspace: the lists of distinct names that hold the primary workspace.
WorkspaceListings ==
    {l \in SeqsUpTo(WorkspaceNames, Cardinality(WorkspaceNames)) :
        /\ \E i \in 1..Len(l) : l[i] = "default"
        /\ \A i, j \in 1..Len(l) : l[i] = l[j] => i = j}

\* f"{repo_path}:worktrees"
WorktreesKey(p) == p \o ":worktrees"

\* The value of `cached` after `cached := commit_cache.get(key)`: None on a miss.
NoneValue == [kind |-> "none", count |-> 0, list |-> <<>>, exc |-> None]

cache_get(d, c, k, t) ==
    IF k \in DOMAIN d /\ is_fresh(d[k], c, t) THEN d[k].data ELSE NoneValue

\* The truth value of `if cached := ...`: None, 0 and [] are all false.
truthy(v) ==
    CASE v.kind = "count" -> v.count # 0
      [] v.kind = "list"  -> v.list # <<>>
      [] OTHER            -> FALSE

\* WorktreeInfo(branch=None for the default workspace, is_main=name == "default")
WorkspaceInfo(workspace_name) ==
    [branch |-> IF workspace_name = "default" THEN None ELSE workspace_name,
     is_main |-> workspace_name = "default"]

\* len([line for line in lines if line.strip() and not line.startswith("default@")])
count_secondary_lines(listing) ==
    Cardinality({i \in 1..Len(listing) : listing[i] # "default"})

\* workspaces[1:] if len(workspaces) > 1 else []
drop_first_workspace(workspaces) ==
    IF Len(workspaces) > 1 THEN Tail(workspaces) ELSE <<>>

\* The body of get_worktree_count after a cache miss.
jj_worktree_count_uncached(listing, tools) ==
    IF "jj" \notin tools THEN RaisesExc("FileNotFoundError")
    ELSE ReturnsCount(count_secondary_lines(listing))

\* The body of get_worktree_list after a cache miss.
jj_worktree_list_uncached(listing, tools) ==
    IF "jj" \notin tools THEN RaisesExc("FileNotFoundError")
    ELSE ReturnsList(drop_first_workspace([i \in 1..Len(listing) |-> WorkspaceInfo(listing[i])]))

\* A memoized read on cache c: the cached value when it is truthy, else the
\* computed outcome ...
memo_outcome(d, c, k, t, computed) ==
    IF truthy(cache_get(d, c, k, t)) THEN cache_get(d, c, k, t) ELSE computed

\* ... and the dict the call leaves: the get drops a stale entry, and the
\* computed value is stored when the call reaches its cache.set.
memo_dict(d, c, k, t, computed, stores) ==
    IF truthy(cache_get(d, c, k, t)) THEN d
    ELSE IF computed.kind = "raised" \/ ~stores THEN get_dict(d, c, k, t)
    ELSE set_dict(get_dict(d, c, k, t), k, computed, t)

InitJjWorkspace ==
    /\ fs = [p \in Paths |-> [git |-> "none", jj |-> "dir"]]
    /\ InitFsIdle
    /\ InitBatchIdle
    /\ InitCacheIdle
    /\ cpc = "idle"
    /\ reads = <<>>
    /\ gather_exc = None
    /\ csummary = NoValue
    /\ cerror = None
    /\ repo_state \in [Paths -> WorkspaceListings]
    /\ installed \in SUBSET {"jj"}
    /\ appState = "running"
    /\ repo_paths = <<>>
    /\ summaries = <<>>
    /\ current_view = "repo_list"
    /\ selected_repo = NoValue
    /\ workers = <<>>
    /\ detail = NoValue
    /\ refreshes = 0
    /\ cleanup = NoValue
    /\ calls = <<>>
    /\ popup = NoValue
    /\ modal = NoValue

memoFrame == <<fsVars, batchVars, now, lastCall, appVars, collVars, cleanup, popup, modal>>

JjGetWorktreeCount(p) ==
    /\ Len(calls) < MaxWorkspaceCalls
    /\ LET computed == jj_worktree_count_uncached(repo_state[p], installed)
           d == caches["commit_cache"]
       IN  /\ calls' = Append(calls, Call("get_worktree_count", p, NoValue,
                                          memo_outcome(d, "commit_cache", WorktreeCountKey(p), now, computed)))
           /\ caches' = [caches EXCEPT !["commit_cache"] =
                            memo_dict(d, "commit_cache", WorktreeCountKey(p), now,
                                      computed, TRUE)]
    /\ UNCHANGED memoFrame

JjGetWorktreeList(p) ==
    /\ Len(calls) < MaxWorkspaceCalls
    /\ LET computed == jj_worktree_list_uncached(repo_state[p], installed)
           d == caches["commit_cache"]
       IN  /\ calls' = Append(calls, Call("get_worktree_list", p, NoValue,
                                          memo_outcome(d, "commit_cache", WorktreesKey(p), now, computed)))
           /\ caches' = [caches EXCEPT !["commit_cache"] =
                            memo_dict(d, "commit_cache", WorktreesKey(p), now,
                                      computed, TRUE)]
    /\ UNCHANGED memoFrame

NextJjWorkspace ==
    \/ \E p \in Paths : JjGetWorktreeCount(p)
    \/ \E p \in Paths : JjGetWorktreeList(p)

SpecJjWorkspace == InitJjWorkspace /\ [][NextJjWorkspace]_vars

----------------------------------------------------------------------------
(* Claims about the jj workspace operations (SpecJjWorkspace) *)

Returned(i) == calls[i].outcome.kind # "raised"

\* C23: on the jj backend get_worktree_list never contains the primary
\* (default) workspace, contains every secondary workspace of the backend's
\* listing whatever the position of the primary in it, and its length equals
\* get_worktree_count.
C23_PrimaryWorkspaceExcluded ==
    \A i \in CallsOf("get_worktree_list") :
        Returned(i) =>
            LET listed == calls[i].outcome.list
                listing == repo_state[calls[i].path]
            IN  /\ \A k \in 1..Len(listed) : ~listed[k].is_main
                /\ \A k \in 1..Len(listing) :
                       listing[k] # "default" =>
                           \E n \in 1..Len(listed) : listed[n].branch = listing[k]
                /\ \A j \in CallsOf("get_worktree_count") :
                       (Returned(j) /\ calls[j].path = calls[i].path) =>
                           calls[j].outcome.count = Len(listed)

----------------------------------------------------------------------------
(* git_ops.py: the memoized read operations (SpecGitMemo) *)

MaxMemoCalls == 2

GitMemoOps ==
    {"get_branch_list_async", "get_worktree_count", "get_worktree_list",
     "get_stash_count", "get_stash_list", "get_commits_ahead", "get_commits_behind"}

\* What git reports for the repository: how many secondary worktrees,
\* stashes, local branches and commits ahead of / behind the tracking branch
\* it has (none of each, or one of each), and whether the branch tracks a
\* remote one.
GitMemoRepoStates == [items : {0, 1}, tracking : BOOLEAN]

\* branch_cache for the branch list, commit_cache for every other read.
memo_cache(op) ==
    IF op = "get_branch_list_async" THEN "branch_cache" ELSE "commit_cache"

\* The cache key of each read, for the ref "main" where the key has one.
memo_key(op, p) ==
    CASE op = "get_branch_list_async" -> BranchListKey(p)
      [] op = "get_worktree_count"    -> WorktreeCountKey(p)
      [] op = "get_worktree_list"     -> WorktreesKey(p)
      [] op = "get_stash_count"       -> p \o ":stash_count"
      [] op = "get_stash_list"        -> p \o ":stashes"
      [] op = "get_commits_ahead"     -> p \o ":main:ahead"
      [] op = "get_commits_behind"    -> p \o ":main:behind"

Items(n, item) == [i \in 1..n |-> item]

\* get_commits_ahead / get_commits_behind return [] before their cache.set
\* when _get_tracking_branch finds no tracking branch (or fails).
memo_stores(op, st, tools) ==
    op \in {"get_commits_ahead", "get_commits_behind"} => (st.tracking /\ "git" \in tools)

\* The body of each read after a cache miss.
git_read_uncached(op, st, tools) ==
    IF op \in {"get_commits_ahead", "get_commits_behind"}
    THEN IF st.tracking /\ "git" \in tools
         THEN ReturnsList(Items(st.items, "commit")) ELSE ReturnsList(<<>>)
    ELSE IF "git" \notin tools THEN RaisesExc("FileNotFoundError")
    ELSE CASE op = "get_branch_list_async" -> ReturnsList(Items(st.items, "branch"))
           [] op = "get_worktree_count"    -> ReturnsCount(st.items)
           [] op = "get_worktree_list"     -> ReturnsList(Items(st.items, "worktree"))
           [] op = "get_stash_count"       -> ReturnsCount(st.items)
           [] op = "get_stash_list"        -> ReturnsList(Items(st.items, "stash"))

MemoCall(op, path, arg, t, invoked, outcome) ==
    [op |-> op, path |-> path, arg |-> arg, t |-> t, invoked |-> invoked,
     outcome |-> outcome]

InitGitMemo ==
    /\ fs = [p \in Paths |-> [git |-> "dir", jj |-> "none"]]
    /\ InitFsIdle
    /\ InitBatchIdle
    /\ InitCacheIdle
    /\ cpc = "idle"
    /\ reads = <<>>
    /\ gather_exc = None
    /\ csummary = NoValue
    /\ cerror = None
    /\ repo_state \in GitMemoRepoStates
    /\ installed \in {{"git"}, {}}
    /\ appState = "running"
    /\ repo_paths = <<>>
    /\ summaries = <<>>
    /\ current_view = "repo_list"
    /\ selected_repo = NoValue
    /\ workers = <<>>
    /\ detail = NoValue
    /\ refreshes = 0
    /\ cleanup = NoValue
    /\ calls = <<>>
    /\ popup = NoValue
    /\ modal = NoValue

\* One awaited read: `if cached := cache.get(key): return cached`, else the
\* subprocess runs and its result is stored.
GitMemoRead(op, p) ==
    /\ Cardinality({i \in 1..Len(calls) : calls[i].op # "clear"}) < MaxMemoCalls
    /\ LET c == memo_cache(op)
           k == memo_key(op, p)
           computed == git_read_uncached(op, repo_state, installed)
       IN  /\ calls' = Append(calls,
                  MemoCall(op, p, "main", now, ~truthy(cache_get(caches[c], c, k, now)),
                           memo_outcome(caches[c], c, k, now, computed)))
           /\ caches' = [caches EXCEPT ![c] =
                  memo_dict(caches[c], c, k, now, computed,
                            memo_stores(op, repo_state, installed))]
    /\ UNCHANGED memoFrame

\* TTLCache.clear on one cache.
GitMemoClear(c) ==
    /\ calls # <<>>
    /\ calls[Len(calls)].op # "clear"
    /\ calls' = Append(calls, MemoCall("clear", NoValue, c, now, FALSE, NoneValue))
    /\ caches' = clear(caches, c)
    /\ UNCHANGED memoFrame

NextGitMemo ==
    \/ \E op \in GitMemoOps : GitMemoRead(op, CollectorPath)
    \/ \E c \in {"branch_cache", "commit_cache"} : GitMemoClear(c)
    \/ Tick(MaxTime)

SpecGitMemo == InitGitMemo /\ [][NextGitMemo]_vars

----------------------------------------------------------------------------
(* Claims about memoized reads (SpecGitMemo) *)

ClearedBetween(i, j) ==
    \E k \in (i + 1)..(j - 1) :
        calls[k].op = "clear" /\ calls[k].arg = memo_cache(calls[i].op)

\* C24: a second call of a cached read for the same repository (and ref),
\* made within the TTL of the first call's computation and with no clear in
\* between, returns the first call's value without invoking the VCS
\* subprocess again, for every value the first call produced, 0 and the
\* empty list included.
C24_RepeatedReadsMemoized ==
    \A i, j \in 1..Len(calls) :
        ( /\ i < j
          /\ calls[i].op \in GitMemoOps
          /\ calls[j].op = calls[i].op
          /\ calls[j].path = calls[i].path
          /\ calls[i].invoked
          /\ calls[i].outcome.kind # "raised"
          /\ calls[j].t - calls[i].t < ttl(memo_cache(calls[i].op))
          /\ ~ClearedBetween(i, j) )
        => /\ calls[j].outcome = calls[i].outcome
           /\ ~calls[j].invoked

----------------------------------------------------------------------------
(* Claims about the initial load (SpecApp) *)

InitialLoadComplete ==
    /\ appState # "constructed"
    /\ refreshes = 0
    /\ \A i \in CollectorsOf(0) : Finished(i)

\* C25: after the initial load completes, the summary map holds a summary
\* for every repository directory under the scan path that carries a backend
\* marker: vcs_type git for a git-only repository, jj for a jj-only
\* repository and jj for a colocated one.
C25_InitialLoadCoversEveryBackend ==
    InitialLoadComplete =>
        \A p \in Paths :
            ~NoMarkerDir(p) =>
                /\ p \in DOMAIN summaries
                /\ summaries[p].vcs_type = detect_vcs_type(fs[p])

----------------------------------------------------------------------------
(* cleanup_merged_branches on either backend (SpecCleanup) *)

\* The backend the repository selects.
CleanupBackend == get_vcs_operations(fs[CollectorPath])

InitCleanup == InitGitCleanup \/ InitJjCleanup

NextCleanup ==
    \/ CleanupBackend = "GitOperations" /\ NextGitCleanup
    \/ CleanupBackend = "JJOperations" /\ NextJjCleanup

SpecCleanup == InitCleanup /\ [][NextCleanup]_vars

----------------------------------------------------------------------------
(* Claims about failures during cleanup_merged_branches (SpecCleanup) *)

Failed == {cleanup.failed[i] : i \in 1..Len(cleanup.failed)}

\* The branches merged into the trunk when the git cleanup started, other
\* than the trunk itself and master.
GitCandidates == (repo_state.merged \cup Deleted) \ {cleanup.trunk, "master", "HEAD"}

\* Every candidate attempted exactly once, each in exactly one of the lists.
C26_GitAccounting ==
    /\ \A i, j \in 1..Len(cleanup.attempted) :
           cleanup.attempted[i] = cleanup.attempted[j] => i = j
    /\ Deleted \cap Failed = {}
    /\ Deleted \cup Failed = Tried
    /\ Len(cleanup.deleted) + Len(cleanup.failed) = Len(cleanup.attempted)
    /\ (cleanup.pc = "returned" /\ "git" \in installed) => Tried = GitCandidates

\* The jj scan went on after a bookmark whose check failed: no bookmark that
\* the scan would delete is left.
C26_JjScanCompleted ==
    (cleanup.pc = "returned" /\ "jj" \in installed) =>
        /\ cleanup.result[1]
        /\ \A b \in repo_state.present \ ProtectedBookmarks :
               repo_state.faulty = b \/ ~revset_is_empty(repo_state, b)

\* C26 (as stated): a failed delete never stops the cleanup: on git every
\* candidate is attempted exactly once and ends in exactly one of deleted and
\* failed, and success = false is reported only when there was at least one
\* candidate and none was deleted; on jj the scan continues with the next
\* bookmark.
C26_FailureOnlyWhenNoneDeleted ==
    IF CleanupBackend = "GitOperations"
    THEN /\ C26_GitAccounting
         /\ (cleanup.pc = "returned" /\ ~cleanup.result[1]) =>
                (Tried # {} /\ Deleted = {})
    ELSE C26_JjScanCompleted

\* C26 (amended): as above, except that success = false is also reported,
\* with no candidate attempted, when the git command cannot be run at all.
C26_FailedDeleteNeverStopsCleanup ==
    IF CleanupBackend = "GitOperations"
    THEN /\ C26_GitAccounting
         /\ (cleanup.pc = "returned" /\ ~cleanup.result[1]) =>
                \/ Tried # {} /\ Deleted = {}
                \/ "git" \notin installed /\ Tried = {}
    ELSE C26_JjScanCompleted

\* A git cleanup that deleted a branch after git had refused another one.
C26_Witness ==
    /\ CleanupBackend = "GitOperations"
    /\ cleanup.pc = "returned"
    /\ cleanup.result[1]
    /\ \E i, j \in 1..Len(cleanup.attempted) :
           /\ i < j
           /\ cleanup.attempted[i] \in Failed
           /\ cleanup.attempted[j] \in Deleted

----------------------------------------------------------------------------
(* Claims about a refresh during a load (SpecApp) *)

AllCollectorsFinished == \A i \in 1..Len(workers) : Finished(i)

\* C27: if a refresh is triggered while collectors of the previous load are
\* still running, then once all collectors have finished the summary stored
\* for each path is the one produced by the collector the most recent
\* refresh launched: an older collector's result neither overwrites it nor
\* stays in its place.
C27_LatestRefreshWins ==
    (refreshes > 0 /\ appState = "running" /\ AllCollectorsFinished) =>
        \A p \in DOMAIN summaries : summaries[p].loaded_by = refreshes

----------------------------------------------------------------------------
(* Claims about the NO_GIT status (SpecCollector) *)

\* C28: the git collector reports NO_GIT only when the git executable is not
\* installed; with git installed, a collection whose reads fail (the
\* filesystem-mtime fallback of the last-modified lookup included) is
\* reported WARNING.
C28_NoGitOnlyWithoutGit ==
    HasSummary =>
        /\ csummary.status = "NO_GIT" => "git" \notin installed
        /\ ("git" \in installed
            /\ (ReadRaised(repo_state) \/ MtimeFallbackFails(repo_state, installed)))
               => csummary.status = "WARNING"

----------------------------------------------------------------------------
(* modals.py FilterPopup and the filter list of the app (SpecFilterPopup) *)

\* The key bindings of FilterPopup that toggle a filter mode.
ToggleKeys == {"a", "b", "d", "p", "s"}

key_mode(key) ==
    CASE key = "a" -> "ahead"
      [] key = "b" -> "behind"
      [] key = "d" -> "dirty"
      [] key = "p" -> "has_pr"
      [] key = "s" -> "has_stash"

\* popup.app_filters is RepoDashboardApp._active_filters; the other fields are
\* the FilterPopup on the screen stack (or the last one dismissed) and the
\* last key it handled.
Popup(open, active_filters, not_mode, key, app_filters) ==
    [open |-> open, active_filters |-> active_filters, not_mode |-> not_mode,
     key |-> key, app_filters |-> app_filters]

\* next((i for i, f in enumerate(filters) if f.mode == mode), None), 0 for None.
existing_index(filters, mode) ==
    IF \E i \in 1..Len(filters) : filters[i].mode = mode
    THEN CHOOSE i \in 1..Len(filters) :
             /\ filters[i].mode = mode
             /\ \A j \in 1..(i - 1) : filters[j].mode # mode
    ELSE 0

\* list.pop(i)
ListPop(l, i) == [k \in 1..(Len(l) - 1) |-> IF k < i THEN l[k] ELSE l[k + 1]]

toggle_filter_appending(filters, mode, not_mode) ==
    Append(filters, ActiveFilter(mode, not_mode))

\* The list _toggle_filter leaves in self._active_filters.
toggle_filter(filters, mode, not_mode) ==
    LET existing == existing_index(filters, mode)
    IN  IF existing # 0
        THEN IF filters[existing].inverted = not_mode
             THEN ListPop(filters, existing)
             ELSE [filters EXCEPT ![existing] = ActiveFilter(mode, not_mode)]
        ELSE Append(filters, ActiveFilter(mode, not_mode))

InitFilterPopup ==
    /\ fs = [p \in Paths |-> [git |-> "dir", jj |-> "none"]]
    /\ InitFsIdle
    /\ InitBatchIdle
    /\ InitCacheIdle
    /\ InitCollectorIdle
    /\ installed = {"git", "jj", "gh"}
    /\ appState = "running"
    /\ repo_paths = <<>>
    /\ summaries = <<>>
    /\ current_view \in {"repo_list", "repo_detail"}
    /\ selected_repo = NoValue
    /\ workers = <<>>
    /\ detail = NoValue
    /\ refreshes = 0
    /\ cleanup = NoValue
    /\ calls = <<>>
    /\ popup = Popup(FALSE, <<>>, FALSE, NoValue, <<>>)
    /\ modal = NoValue

popupFrame == <<fsVars, batchVars, cacheVars, appVars, collVars, cleanup, calls, modal>>

\* action_show_filter_popup: FilterPopup(self._active_filters) copies the list.
ShowFilterPopup ==
    /\ ~popup.open
    /\ popup' = Popup(TRUE, popup.app_filters, FALSE, "f", popup.app_filters)
    /\ UNCHANGED popupFrame

\* action_start_not
StartNot ==
    /\ popup.open
    /\ popup' = [popup EXCEPT !.not_mode = ~@, !.key = "n"]
    /\ UNCHANGED popupFrame

\* action_toggle_*: _toggle_filter, then dismiss(self._active_filters) and the
\* app's handle_filter_result.
ToggleFilter(key) ==
    /\ popup.open
    /\ LET result == toggle_filter(popup.active_filters, key_mode(key), popup.not_mode)
       IN  popup' = Popup(FALSE, result, FALSE, key, result)
    /\ UNCHANGED popupFrame

\* action_clear_all
ClearAll ==
    /\ popup.open
    /\ popup' = Popup(FALSE, <<>>, popup.not_mode, "c", <<>>)
    /\ UNCHANGED popupFrame

\* escape: dismiss() with no result, the app keeps its list.
DismissPopup ==
    /\ popup.open
    /\ popup' = [popup EXCEPT !.open = FALSE, !.key = "escape"]
    /\ UNCHANGED popupFrame

NextFilterPopup ==
    \/ ShowFilterPopup
    \/ StartNot
    \/ \E key \in ToggleKeys : ToggleFilter(key)
    \/ ClearAll
    \/ DismissPopup

SpecFilterPopup == InitFilterPopup /\ [][NextFilterPopup]_vars

----------------------------------------------------------------------------
(* Claims about the filter popup (SpecFilterPopup) *)

AtMostOnePerMode(filters) ==
    \A i, j \in 1..Len(filters) : filters[i].mode = filters[j].mode => i = j

\* A step in which the popup handles a toggle key.
ToggleStepOf(key) == popup.open /\ ~popup'.open /\ popup'.key = key

C29_ToggleStep ==
    \A key \in ToggleKeys :
        ToggleStepOf(key) =>
            LET before == popup.active_filters
                after == popup'.app_filters
                mode == key_mode(key)
            IN  /\ ~popup'.not_mode
                /\ \A i \in 1..Len(before) :
                       before[i].mode = mode =>
                           IF before[i].inverted = popup.not_mode
                           THEN /\ Len(after) = Len(before) - 1
                                /\ \A k \in 1..Len(after) :
                                       after[k] = (IF k < i THEN before[k] ELSE before[k + 1])
                           ELSE /\ Len(after) = Len(before)
                                /\ \A k \in 1..Len(after) :
                                       after[k] = (IF k = i THEN ActiveFilter(mode, popup.not_mode)
                                                   ELSE before[k])

\* C29: in every state reached by filter-popup actions from an empty filter
\* list, the active filter list holds at most one ActiveFilter per mode;
\* toggling a mode that is active with the same inversion removes it,
\* toggling it with the opposite inversion replaces it in place, and the NOT
\* prefix is reset after every toggle.
C29_OneFilterPerMode ==
    /\ [](AtMostOnePerMode(popup.app_filters) /\ AtMostOnePerMode(popup.active_filters))
    /\ [][C29_ToggleStep]_vars

\* A filter was replaced in place by its inversion while another one follows it.
C29_Witness ==
    /\ ~popup.open
    /\ popup.key = "a"
    /\ Len(popup.app_filters) = 3
    /\ popup.app_filters[1] = ActiveFilter("ahead", TRUE)

----------------------------------------------------------------------------
(* modals.py BatchTaskModal.on_mount (SpecBatchModal) *)

\* self._total, self._completed, the rows of the results table, the value
\* shown by the progress bar, and the position of on_mount in its loop.
Modal(pc, i, total, completed, rows, progress) ==
    [pc |-> pc, idx |-> i, total |-> total, completed |-> completed, rows |-> rows,
     progress |-> progress]

\* table.add_row(repo.name[:28], status_icon, message_display, f"{duration}ms")
ModalRow(repo, success, message, duration) ==
    [name |-> repo.name, status_icon |-> IF success THEN "ok" ELSE "failed",
     message |-> message, duration_ms |-> duration]

InitBatchModal ==
    /\ fs \in [Paths -> DirKinds]
    /\ InitFsIdle
    /\ InitCacheIdle
    /\ InitAppIdle
    /\ InitCollectorIdle
    /\ cleanup = NoValue
    /\ calls = <<>>
    /\ popup = NoValue
    /\ repos \in SeqsUpTo(RepoInputs, MaxRepos)
    /\ bpc = "done"
    /\ idx = 1
    /\ vcs_ops = NoValue
    /\ taskState = <<>>
    /\ taskOutcome = <<>>
    /\ results = <<>>
    /\ modal = Modal("loop", 1, Len(repos), 0, <<>>, 0)

modalFrame == <<fsVars, batchVars, cacheVars, appVars, collVars, cleanup, calls, popup>>

\* vcs_ops = get_vcs_operations(repo.path): outside the try block, so its
\* ValueError leaves on_mount.
ModalResolve ==
    /\ modal.pc = "loop"
    /\ modal.idx <= Len(repos)
    /\ modal' = [modal EXCEPT !.pc =
                    IF get_vcs_operations(fs[repos[modal.idx].path]) = "ValueError"
                    THEN "raised" ELSE "await"]
    /\ UNCHANGED modalFrame

\* The loop body after the awaited task has settled: the row is added, then
\* self._completed += 1 and progress.update(progress=self._completed).
ModalAddRow(success, message, duration) ==
    /\ modal' = [modal EXCEPT !.pc = "loop", !.idx = @ + 1,
                    !.rows = Append(@, ModalRow(repos[modal.idx], success, message, duration)),
                    !.completed = @ + 1, !.progress = modal.completed + 1]
    /\ UNCHANGED modalFrame

ModalTaskReturns ==
    /\ modal.pc = "await"
    /\ \E r \in TaskReturns, d \in DurationsMs : ModalAddRow(r[1], r[2], d)

ModalTaskRaises ==
    /\ modal.pc = "await"
    /\ \E e \in ErrorTexts, d \in DurationsMs : ModalAddRow(FALSE, ErrorMessage(e), d)

\* `for repo in self.repos` is exhausted: on_mount returns.
ModalEnd ==
    /\ modal.pc = "loop"
    /\ modal.idx > Len(repos)
    /\ modal' = [modal EXCEPT !.pc = "done"]
    /\ UNCHANGED modalFrame

NextBatchModal ==
    \/ ModalResolve
    \/ ModalTaskReturns
    \/ ModalTaskRaises
    \/ ModalEnd

SpecBatchModal == InitBatchModal /\ [][NextBatchModal]_vars

----------------------------------------------------------------------------
(* Claims about the progress counter of BatchTaskModal (SpecBatchModal) *)

ModalRunEnded == modal.pc \in {"done", "raised"}

\* C30: while BatchTaskModal runs a batch, _completed equals the number of
\* result rows added so far, one per processed repository in input order,
\* never exceeds _total, and equals _total when the run ends, for every list
\* of repositories and every task outcome.
C30_CompletedCountsRows ==
    /\ modal.completed = Len(modal.rows)
    /\ modal.completed <= modal.total
    /\ modal.total = Len(repos)
    /\ \A i \in 1..Len(modal.rows) : modal.rows[i].name = repos[i].name
    /\ ModalRunEnded => modal.completed = modal.total

====
